---- MODULE Spec2Model ----
(***************************************************************************)
(* Model of the data acquisition pipeline of Outreach Mate:                *)
(*   scripts/orchestration/data_pipeline.py   (DataPipeline)               *)
(*   scripts/ai/gemini_transformer.py         (GeminiDataTransformer)      *)
(*   scripts/data_acquisition/*.py            (collaborators, as seen by   *)
(*                                             the pipeline)               *)
(*   backend/app/services/background_tasks.py (TaskManager.cancel_task)    *)
(***************************************************************************)
EXTENDS Integers, Sequences, FiniteSets, TLC

\* ------------------------------------------------------------------------
\* Bounds
\* ------------------------------------------------------------------------
\* number of data rows of a CSV batch
MaxRows == 2
\* number of people the enrichment API returns for one company
MaxPeople == 2

\* ------------------------------------------------------------------------
\* JSON values.  A field of a decoded JSON object is abstracted to the kind
\* of value it holds; "absent" means that the key is not in the object.
\* ------------------------------------------------------------------------
ValKinds ==
  {"absent", "null", "empty_str", "short_str", "long_str",
   "empty_list", "list", "empty_dict", "dict", "zero", "number"}

\* python truthiness of a present value
Truthy(v) == v \in {"short_str", "long_str", "list", "dict", "number"}

\* company_field_weights of _calculate_data_quality_score
company_field_weights ==
  [name |-> 5, website_url |-> 5, linkedin_url |-> 5, industry |-> 5,
   revenue_range |-> 3, employee_count_range |-> 3, technologies_used |-> 4,
   mission_vision_offerings_summary |-> 10,
   recent_company_activity_summary |-> 10,
   contact_form_url |-> 2, description |-> 2, founded_year |-> 1,
   headquarters |-> 1]

\* contact_field_weights of _calculate_data_quality_score
contact_field_weights ==
  [name |-> 2, title |-> 2, email_primary |-> 3, phone_numbers |-> 2,
   social_profiles |-> 2, scraped_linkedin_profile_summary |-> 3,
   scraped_linkedin_recent_activity |-> 3,
   scraped_accomplishments_summary |-> 2, scraped_past_work_summary |-> 2,
   scraped_current_work_summary |-> 2,
   scraped_online_contributions_summary |-> 2]

CompanyFields == DOMAIN company_field_weights
ContactFields == DOMAIN contact_field_weights

\* the "Arbitrary threshold for meaningful content" of the score
MeaningfulLen == 10

\* length of a string of the given kind (short_str is a placeholder such as
\* "N/A", long_str a string longer than the threshold)
StrLen(v) ==
  CASE v = "empty_str" -> 0
    [] v = "short_str" -> 3
    [] v = "long_str" -> MeaningfulLen + 1
    [] OTHER -> 0

RECURSIVE SumOver(_, _)
SumOver(S, f) ==
  IF S = {} THEN 0
  ELSE LET x == CHOOSE y \in S : TRUE IN f[x] + SumOver(S \ {x}, f)

\* FieldFilled without the length threshold of the strings
FieldFilled_truthy(v) == v # "absent" /\ Truthy(v)

\* the weight a field earns: the field is in the object and truthy; a list
\* or a dict has content, a string is longer than the threshold, any other
\* truthy value counts
FieldFilled(v) ==
  /\ v # "absent"
  /\ Truthy(v)
  /\ CASE v \in {"list", "dict"} -> TRUE
       [] v \in {"short_str", "long_str"} -> StrLen(v) > MeaningfulLen
       [] OTHER -> TRUE

WeightedScore(obj, weights) ==
  SumOver(DOMAIN weights,
          [f \in DOMAIN weights |-> IF FieldFilled(obj[f]) THEN weights[f] ELSE 0])

Min(a, b) == IF a < b THEN a ELSE b
Max(a, b) == IF a > b THEN a ELSE b

\* python round() of the non-negative rational p/q: to nearest, ties to even
Round(p, q) ==
  LET fl == p \div q
      r  == p % q
  IN  IF 2 * r < q THEN fl
      ELSE IF 2 * r > q THEN fl + 1
      ELSE IF fl % 2 = 0 THEN fl ELSE fl + 1

\* contacts scored at most
ScoredContacts == 5
\* points of the company part and of the contacts part
max_contacts_score == 50
max_score == 100

RECURSIVE SumSeq(_, _)
SumSeq(s, n) == IF n = 0 THEN 0 ELSE s[n] + SumSeq(s, n - 1)

\* final_score of _calculate_data_quality_score before it is rounded:
\* company part (company_score / max_company_score) * 50 plus, for the first
\* five contacts, (contact_score / max_individual_score) *
\* (50 / min(len, 5)), as the exact fraction p / q; m is the number of
\* contacts scored
final_score(data) ==
  LET company_score == WeightedScore(data.company, company_field_weights)
      max_company_score == SumOver(CompanyFields, company_field_weights)
      max_individual_score == SumOver(ContactFields, contact_field_weights)
      n == Len(data.contacts)
      m == Min(n, ScoredContacts)
      cscores == [i \in 1..m |->
                    WeightedScore(data.contacts[i].f, contact_field_weights)]
      S == SumSeq(cscores, m)
      p == IF m = 0 THEN 50 * company_score * max_individual_score
           ELSE 50 * company_score * max_individual_score * m
                + max_contacts_score * S * max_company_score
      q == IF m = 0 THEN max_company_score * max_individual_score
           ELSE max_company_score * max_individual_score * m
  IN  [p |-> p, q |-> q, m |-> m]

\* _calculate_data_quality_score with the contacts part shared among the
\* contacts that hold any data instead of min(len, 5)
_calculate_data_quality_score_perfilled(data) ==
  LET company_score == WeightedScore(data.company, company_field_weights)
      max_company_score == SumOver(CompanyFields, company_field_weights)
      max_individual_score == SumOver(ContactFields, contact_field_weights)
      m == Min(Len(data.contacts), ScoredContacts)
      cscores == [i \in 1..m |->
                    WeightedScore(data.contacts[i].f, contact_field_weights)]
      k == Cardinality({i \in 1..m : cscores[i] > 0})
      S == SumSeq(cscores, m)
      p == IF k = 0 THEN 50 * company_score * max_individual_score
           ELSE 50 * company_score * max_individual_score * k
                + max_contacts_score * S * max_company_score
      q == IF k = 0 THEN max_company_score * max_individual_score
           ELSE max_company_score * max_individual_score * k
  IN  Max(0, Min(Round(p, q), max_score))

\* _calculate_data_quality_score: final_score rounded and clamped
\* (line 405), in exact arithmetic
_calculate_data_quality_score(data) ==
  LET fs == final_score(data)
  IN  Max(0, Min(Round(fs.p, fs.q), max_score))

\* the values _calculate_data_quality_score can return in binary floating
\* point.  Away from a tie the rounding error of the float sum cannot change
\* the rounded result.  At a tie the sum of up to two contact terms is exact;
\* with three or more terms the accumulated sum is the tie or lies just
\* above it, and round() then gives the upper neighbour.
FloatScores(data) ==
  LET fs == final_score(data)
      tie == 2 * (fs.p % fs.q) = fs.q
  IN  {_calculate_data_quality_score(data)} \cup
      (IF tie /\ fs.m >= 3
         THEN {Max(0, Min((fs.p \div fs.q) + 1, max_score))}
         ELSE {})

\* ------------------------------------------------------------------------
\* The text the model returns (GeminiDataTransformer._generate_response) and
\* the JSON value it decodes to.
\*   api_ok    generate_content_async returned text (FALSE: it raised)
\*   fence     markdown wrapping of the text: "none", "json" (```json),
\*             "plain" (```), "other" (``` followed by another language tag)
\*   json_ok   the text inside the wrapping is valid JSON
\*   toptype   type of the decoded value: "dict", "list", "str", "scalar"
\*   keys      top-level keys of a decoded object
\* ------------------------------------------------------------------------
TopKeys == {"company", "contacts", "campaign_status", "data_quality_score"}

CompanyObj(name, website_url, industry, rest) ==
  [f \in CompanyFields |->
     CASE f = "name" -> name
       [] f = "website_url" -> website_url
       [] f = "industry" -> industry
       [] OTHER -> rest]

\* who: the person the name and the email of the contact belong to
ContactObj(who, name, email_primary, rest) ==
  [isdict |-> TRUE, who |-> who,
   f |-> [f \in ContactFields |->
            CASE f = "name" -> name
              [] f = "email_primary" -> email_primary
              [] OTHER -> rest]]

NotADict == [isdict |-> FALSE, who |-> 0, f |-> [f \in ContactFields |-> "absent"]]

Response(keys, company_isdict, company, contacts_islist, contacts) ==
  [api_ok |-> TRUE, fence |-> "none", json_ok |-> TRUE, toptype |-> "dict",
   keys |-> keys, company_isdict |-> company_isdict, company |-> company,
   contacts_islist |-> contacts_islist, contacts |-> contacts,
   claimed_score |-> 100]

GoodCompany == CompanyObj("long_str", "long_str", "long_str", "long_str")
SparseCompany == CompanyObj("long_str", "null", "short_str", "absent")
GoodContact == ContactObj(1, "long_str", "long_str", "long_str")
SparseContact == ContactObj(2, "short_str", "null", "absent")
CK == {"company", "contacts"}

\* the responses process_company is checked with: the API raising, text
\* that does not decode, decoded values that fail validation, and records
\* that pass, one of them with the same person twice
Responses ==
  { [Response(CK, TRUE, GoodCompany, TRUE, <<GoodContact>>) EXCEPT !.api_ok = FALSE],
    [Response(CK, TRUE, GoodCompany, TRUE, <<GoodContact>>) EXCEPT !.fence = "other"],
    [Response(CK, TRUE, GoodCompany, TRUE, <<GoodContact>>) EXCEPT !.toptype = "scalar"],
    Response({"contacts"}, TRUE, GoodCompany, TRUE, <<GoodContact>>),
    Response(CK, TRUE, GoodCompany, TRUE, <<>>),
    Response(CK, TRUE, GoodCompany, TRUE,
             <<GoodContact, ContactObj(2, "long_str", "absent", "null")>>),
    Response(CK, TRUE, GoodCompany, TRUE,
             <<GoodContact, ContactObj(1, "long_str", "long_str", "null")>>),
    [Response(CK \cup {"data_quality_score"}, TRUE, GoodCompany, TRUE,
              <<GoodContact>>) EXCEPT !.fence = "json", !.claimed_score = 37],
    [Response(CK \cup {"campaign_status"}, TRUE, SparseCompany, TRUE,
              <<GoodContact, SparseContact>>) EXCEPT !.fence = "plain"],
    Response(CK, TRUE, CompanyObj("empty_str", "long_str", "long_str", "null"),
             TRUE, <<SparseContact>>) }

\* outcome of a call that may raise
Raised(exc) == [ok |-> FALSE, exc |-> exc]
Passed == [ok |-> TRUE, exc |-> "none"]

RECURSIVE ValidateContacts_noemail(_, _)
\* ValidateContacts with contact_required_fields = ["name"]
ValidateContacts_noemail(contacts, i) ==
  IF i > Len(contacts) THEN Passed
  ELSE IF ~contacts[i].isdict THEN Raised("ValueError")
  ELSE IF contacts[i].f["name"] = "absent" THEN Raised("ValueError")
  ELSE ValidateContacts_noemail(contacts, i + 1)

RECURSIVE ValidateContacts(_, _)
\* the loop over data["contacts"] of _validate_structured_data, from index i
ValidateContacts(contacts, i) ==
  IF i > Len(contacts) THEN Passed
  ELSE IF ~contacts[i].isdict THEN Raised("ValueError")
  ELSE IF contacts[i].f["name"] = "absent" THEN Raised("ValueError")
  ELSE IF contacts[i].f["email_primary"] = "absent" THEN Raised("ValueError")
  ELSE ValidateContacts(contacts, i + 1)

\* _validate_structured_data without the check of an empty contacts list
_validate_structured_data_noempty(data) ==
  IF data.toptype = "scalar" THEN Raised("TypeError")
  ELSE IF data.toptype # "dict" THEN Raised("ValueError")
  ELSE IF "company" \notin data.keys THEN Raised("ValueError")
  ELSE IF "contacts" \notin data.keys THEN Raised("ValueError")
  ELSE IF ~data.company_isdict THEN Raised("ValueError")
  ELSE IF \E f \in {"name", "website_url", "industry"} :
            data.company[f] = "absent" THEN Raised("ValueError")
  ELSE IF ~data.contacts_islist THEN Raised("ValueError")
  ELSE ValidateContacts(data.contacts, 1)

\* GeminiDataTransformer._validate_structured_data: raises ValueError, or
\* TypeError when the decoded value does not support the 'in' test
_validate_structured_data(data) ==
  IF data.toptype = "scalar" THEN Raised("TypeError")
  ELSE IF data.toptype # "dict" THEN Raised("ValueError")
  ELSE IF "company" \notin data.keys THEN Raised("ValueError")
  ELSE IF "contacts" \notin data.keys THEN Raised("ValueError")
  ELSE IF ~data.company_isdict THEN Raised("ValueError")
  ELSE IF \E f \in {"name", "website_url", "industry"} :
            data.company[f] = "absent" THEN Raised("ValueError")
  ELSE IF ~data.contacts_islist THEN Raised("ValueError")
  ELSE IF Len(data.contacts) = 0 THEN Raised("ValueError")
  ELSE ValidateContacts(data.contacts, 1)

\* the record a validated response becomes
Record(company, contacts, campaign_status, data_quality_score) ==
  [valid |-> TRUE, company |-> company, contacts |-> contacts,
   campaign_status |-> campaign_status,
   data_quality_score |-> data_quality_score]

NoRecord ==
  [valid |-> FALSE, company |-> [f \in CompanyFields |-> "absent"],
   contacts |-> <<>>, campaign_status |-> "none", data_quality_score |-> -1]

\* GeminiDataTransformer._parse_and_validate_response: strip the markdown
\* fence, decode, validate, add campaign_status when the model left it out
_parse_and_validate_response(response) ==
  LET decodes == response.json_ok /\ response.fence # "other"
      v == _validate_structured_data(response)
  IN  IF ~decodes THEN [res |-> Raised("ValueError"), data |-> NoRecord]
      ELSE IF ~v.ok THEN [res |-> v, data |-> NoRecord]
      ELSE [res |-> Passed,
            data |-> Record(response.company, response.contacts,
                       IF "campaign_status" \in response.keys
                         THEN "Model Status" ELSE "Data Ready",
                       IF "data_quality_score" \in response.keys
                         THEN response.claimed_score ELSE -1)]

\* process_scraped_data that computes the score only when the response
\* carries none
process_scraped_data_trusting(response) ==
  IF ~response.api_ok THEN [res |-> Raised("APIError"), data |-> NoRecord]
  ELSE LET parsed == _parse_and_validate_response(response)
       IN  IF ~parsed.res.ok THEN parsed
           ELSE IF parsed.data.data_quality_score >= 0 THEN parsed
           ELSE [res |-> Passed,
                 data |-> [parsed.data EXCEPT !.data_quality_score =
                             _calculate_data_quality_score(parsed.data)]]

\* GeminiDataTransformer.process_scraped_data: generate, parse and validate,
\* then overwrite data_quality_score with the locally computed score; every
\* exception is re-raised
process_scraped_data(response) ==
  IF ~response.api_ok THEN [res |-> Raised("APIError"), data |-> NoRecord]
  ELSE LET parsed == _parse_and_validate_response(response)
       IN  IF ~parsed.res.ok THEN parsed
           ELSE [res |-> Passed,
                 data |-> [parsed.data EXCEPT !.data_quality_score =
                             _calculate_data_quality_score(parsed.data)]]

\* ------------------------------------------------------------------------
\* State
\* ------------------------------------------------------------------------
VARIABLES
  cfg,           \* collaborators DataPipeline.__init__ configured
  header_ok,     \* the CSV header has the 'Company Name' column
  nrows,         \* number of data rows of the CSV
  rows,          \* the data rows the batch loop has read so far
  results,       \* results list of process_companies_from_csv
  batchpc,       \* position of process_companies_from_csv
  pc,            \* position of the process_company call in flight
  arg,           \* arguments of that call
  prospect_id,   \* its prospect id
  raw_data,      \* its raw-data bag
  apollo_ret,    \* what enrich_company_and_contacts returned to it
  contact_i,     \* loop index of its profile-scrape stage
  response,      \* the model response of its normalization
  norm,          \* outcome of its process_scraped_data call
  ret,           \* its return value
  log,           \* stage start / end events of the call, in order
  companies,     \* storage: companies table, keyed by id
  contacts_tbl,  \* storage: contacts table, in insertion order
  scraper        \* the shared LinkedInScraper: driver open, logged in

\* ApolloIntegration._make_request under its decorators
VARIABLES
  clock,         \* time.monotonic(), in whole seconds
  last_reset,    \* limits: start of the current rate window
  num_calls,     \* limits: calls counted in the current rate window
  callers,       \* the threads calling _make_request
  calls_made,    \* calls of _make_request so far
  window_sent,   \* HTTP requests sent so far within the current rate window
  started        \* calls that passed the limiter: how many, first and last time

request_vars == <<clock, last_reset, num_calls, callers, calls_made,
                  window_sent, started>>

\* GeminiDataTransformer._calculate_data_quality_score on its own
VARIABLES
  sc_pc,         \* "new", "scored", "filled"
  sc_data,       \* the record to score
  sc_score,      \* the score returned for it
  sc_prev        \* the score returned before a field was filled

score_vars == <<sc_pc, sc_data, sc_score, sc_prev>>

\* WebsiteCrawler.scrape_website
VARIABLES
  crawler,        \* max_pages and max_depth of the WebsiteCrawler
  cr_pc,          \* "loop": in the while loop, "done": returned
  pages_to_visit, \* the frontier: (url, depth) pairs
  visited_urls,
  page_count,
  all_text,       \* the pages whose content has been accumulated
  fetched,        \* the session.get calls made, in order
  company_info    \* the dict scrape_website returns

crawl_vars == <<crawler, cr_pc, pages_to_visit, visited_urls, page_count,
                all_text, fetched, company_info>>

\* ApolloIntegration called on its own
VARIABLES
  ap_pc,          \* "none", "new" (before the call), "done" (after it)
  ap_in,          \* the caller's identifier and what the API answers
  ap_out          \* the method called and what it returned

apollo_vars == <<ap_pc, ap_in, ap_out>>

\* one LinkedInScraper shared by the process_company runs of a DataPipeline
VARIABLES
  li,             \* the scraper object: driver (exists), logged_in
  cookies_file,   \* whether linkedin_cookies.json exists
  cookie_writes,  \* the writes of the cookie file: was the feed reached
  threads         \* the worker thread of each run: position, login call, result

session_vars == <<li, cookies_file, cookie_writes, threads>>

\* WebsiteCrawler.scrape_website: what it collects from the pages it
\* processed and puts into its result
VARIABLES
  ag_pc,          \* "none", "pages" (in the loop), "done" (result built)
  ag_pages,       \* the pages processed, in crawl order
  ag_i,           \* the next page to process
  contact_urls,   \* the list contact_urls
  social_links,   \* the dict social_links
  ag_info         \* contact_form_url, all_contact_urls, social_profiles

result_vars == <<ag_pc, ag_pages, ag_i, contact_urls, social_links, ag_info>>

\* a scroll loop on one page
VARIABLES
  scr_pc,         \* "none", "loop", "done"
  scr_fn,         \* the function that scrolls
  scr_count,      \* scroll_count of _human_like_scroll
  scr_page,       \* how often the page still grows when scrolled (-1: always)
  scr_height,     \* the scroll height read last
  scr_iter,       \* iterations completed
  scr_grew        \* whether the last iteration found the page higher

scroll_vars == <<scr_pc, scr_fn, scr_count, scr_page, scr_height, scr_iter,
                 scr_grew>>

\* the state of the collaborators of the coordinator run on their own
service_vars == <<request_vars, score_vars, crawl_vars, apollo_vars,
                  session_vars, result_vars, scroll_vars>>

vars == <<cfg, header_ok, nrows, rows, results, batchpc, pc, arg, prospect_id,
          raw_data, apollo_ret, contact_i, response, norm, ret, log,
          companies, contacts_tbl, scraper, service_vars>>

batch_vars == <<header_ok, nrows, rows, results, batchpc>>
store_vars == <<companies, contacts_tbl>>

\* a data row of the CSV: it has at least as many values as the header and
\* a non-blank company name (wellformed), and carries a website / LinkedIn URL
\* (a row with a website and no LinkedIn URL runs as the first row does when
\* no scraper is configured)
RowSet ==
  { [wellformed |-> TRUE,  website |-> TRUE,  linkedin |-> TRUE],
    [wellformed |-> TRUE,  website |-> FALSE, linkedin |-> TRUE],
    [wellformed |-> TRUE,  website |-> FALSE, linkedin |-> FALSE],
    [wellformed |-> FALSE, website |-> TRUE,  linkedin |-> FALSE] }

NoArg == [website |-> FALSE, linkedin |-> FALSE]

\* ------------------------------------------------------------------------
\* ApolloIntegration (apollo_integration.py): enrich_company, find_contacts
\* and enrich_company_and_contacts as functions of what _make_request gives
\* them
\* ------------------------------------------------------------------------
\* email_status of a person of the API
EmailStatuses == {"verified", "unverified"}

\* the 'people' of a mixed_people/search response: person i of a company,
\* with or without a LinkedIn account link, with an email status among S
PeopleLists(S) ==
  { [i \in 1..n |-> [who |-> i, linkedin_url |-> b[i], email_status |-> e[i]]] :
      n \in 0..MaxPeople, b \in [1..MaxPeople -> BOOLEAN],
      e \in [1..MaxPeople -> S] }

\* people of an API that applies the contact_email_status filter of the
\* request (line 168)
PeopleSeqs == PeopleLists({"verified"})

\* what _make_request gives for organizations/enrich: an exception (the
\* retries are used up), a body without organization, an organization with
\* or without an id
OrgAnswers == {"raised", "no_organization", "organization", "organization_noid"}

\* what _make_request gives for mixed_people/search: an exception or a body
\* with a list of people
PeopleAnswers(lists) ==
  {[raised |-> TRUE, people |-> <<>>]} \cup
  {[raised |-> FALSE, people |-> p] : p \in lists}

\* enrich_company (lines 89-123): ValueError without an identifier, else an
\* error dict or the response
enrich_company(has_ident, org) ==
  IF ~has_ident THEN [raised |-> TRUE, error |-> "none", organization |-> "none"]
  ELSE IF org = "raised"
    THEN [raised |-> FALSE, error |-> "exception", organization |-> "none"]
  ELSE IF org = "no_organization"
    THEN [raised |-> FALSE, error |-> "No organization found",
          organization |-> "none"]
  ELSE [raised |-> FALSE, error |-> "none", organization |-> org]

\* find_contacts (lines 125-228): ValueError without an identifier, else an
\* error dict or the people of the response, each copied field by field
find_contacts(has_ident, answer) ==
  IF ~has_ident THEN [raised |-> TRUE, error |-> "none", contacts |-> <<>>]
  ELSE IF answer.raised
    THEN [raised |-> FALSE, error |-> "exception", contacts |-> <<>>]
  ELSE IF answer.people = <<>>
    THEN [raised |-> FALSE, error |-> "No contacts found", contacts |-> <<>>]
  ELSE [raised |-> FALSE, error |-> "none",
        contacts |-> [i \in 1..Len(answer.people) |->
                        [who |-> answer.people[i].who,
                         linkedin_url |-> answer.people[i].linkedin_url,
                         email_status |-> answer.people[i].email_status]]]

\* what enrich_company_and_contacts returns (or that it raised), with the
\* answers it got and the return value of its find_contacts call
ApolloReturn(raised, kind, error, contacts, org, people_answer, contacts_data) ==
  [raised |-> raised, kind |-> kind, error |-> error, contacts |-> contacts,
   org_answer |-> org, people_answer |-> people_answer,
   contacts_data |-> contacts_data]

PeopleAnswerKind(answer) ==
  IF answer.raised THEN "raised"
  ELSE IF answer.people = <<>> THEN "empty" ELSE "people"

\* enrich_company_and_contacts that searches the contacts whatever
\* enrich_company returned
enrich_company_and_contacts_searchalways(has_ident, a) ==
  LET company_data == enrich_company(has_ident, a.org)
      contacts_data == find_contacts(TRUE, a.people)
  IN  IF company_data.raised \/ contacts_data.raised
        THEN ApolloReturn(TRUE, "raised", "none", <<>>, a.org, "not asked",
                          "not called")
      ELSE IF company_data.error # "none"
        THEN ApolloReturn(FALSE, "error", company_data.error, <<>>, a.org,
                          PeopleAnswerKind(a.people), contacts_data.error)
      ELSE ApolloReturn(FALSE, "record", "none", contacts_data.contacts,
                        a.org, PeopleAnswerKind(a.people),
                        contacts_data.error)

\* enrich_company_and_contacts (lines 230-272): the error dict of
\* enrich_company, or the organization with the contacts of find_contacts
\* (none when find_contacts returned its error dict); find_contacts is
\* called with the id of the organization or, without one, with the
\* identifier of the caller
enrich_company_and_contacts(has_ident, a) ==
  LET company_data == enrich_company(has_ident, a.org)
      contacts_data == find_contacts(TRUE, a.people)
  IN  IF company_data.raised
        THEN ApolloReturn(TRUE, "raised", "none", <<>>, a.org, "not asked",
                          "not called")
      ELSE IF company_data.error # "none"
        THEN ApolloReturn(FALSE, "error", company_data.error, <<>>, a.org,
                          "not asked", "not called")
      ELSE IF contacts_data.raised
        THEN ApolloReturn(TRUE, "raised", "none", <<>>, a.org,
                          PeopleAnswerKind(a.people), "raised")
      ELSE ApolloReturn(FALSE, "record", "none", contacts_data.contacts,
                        a.org, PeopleAnswerKind(a.people),
                        contacts_data.error)

\* return values of enrich_company_and_contacts in process_company, which
\* passes the domain or the name (lines 171-177)
ApolloReturns ==
  {enrich_company_and_contacts(TRUE, [org |-> o, people |-> p]) :
     o \in {"raised", "no_organization", "organization"},
     p \in PeopleAnswers(PeopleSeqs)}

NoApollo == [kind |-> "none", contacts |-> <<>>]

EmptyBag ==
  [website_data |-> "absent", apollo_data |-> NoApollo,
   linkedin_data |-> "absent",
   individual_profiles |-> [present |-> FALSE, items |-> <<>>]]

NoResponse ==
  [api_ok |-> FALSE, fence |-> "none", json_ok |-> FALSE, toptype |-> "none",
   keys |-> {}, company_isdict |-> FALSE,
   company |-> [f \in CompanyFields |-> "absent"],
   contacts_islist |-> FALSE, contacts |-> <<>>, claimed_score |-> 0]

NotRun == [ran |-> FALSE, res |-> Raised("none"), data |-> NoRecord]

NoRet == [success |-> FALSE, kind |-> "none", prospect_id |-> 0,
          data_quality_score |-> -1, contact_count |-> -1]

Result(success, kind, id, score, count) ==
  [success |-> success, kind |-> kind, prospect_id |-> id,
   data_quality_score |-> score, contact_count |-> count]

\* ------------------------------------------------------------------------
\* ApolloIntegration._make_request (apollo_integration.py, lines 32-87):
\*   @sleep_and_retry
\*   @limits(calls=APOLLO_RATE_LIMIT, period=APOLLO_RATE_PERIOD)
\*   @on_exception(expo, (RequestException, HTTPError), max_tries=3)
\* ------------------------------------------------------------------------
APOLLO_RATE_LIMIT == 3
APOLLO_RATE_PERIOD == 1
max_tries == 3

\* the rate window, in ticks of the clock: the clock counts seconds
Period == APOLLO_RATE_PERIOD

\* threads that call _make_request
NCallers == 2
Callers == 1..NCallers
\* calls the threads make in all
MaxCalls == 5
\* the clock stops here
MaxClock == 2

\* a thread: where it is in _make_request, the tries of the call in flight
\* and the answer to the last of them, the time its sleep ends
IdleCaller == [pc |-> "idle", tries |-> 0, wake |-> 0, resp |-> "none"]

\* no request made yet: limits() took last_reset from the clock when the
\* class body was evaluated
RequestsIdle ==
  /\ clock = 0
  /\ last_reset = 0
  /\ num_calls = 0
  /\ callers = [c \in Callers |-> IdleCaller]
  /\ calls_made = 0
  /\ window_sent = 0
  /\ started = [n |-> 0, first |-> 0, last |-> 0]

NoData == [company |-> [f \in CompanyFields |-> "absent"], contacts |-> <<>>]

\* no record is being scored
ScoreIdle ==
  /\ sc_pc = "none"
  /\ sc_data = NoData
  /\ sc_score = -1
  /\ sc_prev = -1

NoInfo == [k \in {} |-> 0]

\* no crawl is running
CrawlIdle ==
  /\ crawler = [max_pages |-> 0, max_depth |-> 0]
  /\ cr_pc = "none"
  /\ pages_to_visit = <<>>
  /\ visited_urls = {}
  /\ page_count = 0
  /\ all_text = <<>>
  /\ fetched = <<>>
  /\ company_info = NoInfo

\* no call of the enrichment client is running
NoApolloCall == [method |-> "none"]

ApolloIdle ==
  /\ ap_pc = "none"
  /\ ap_in = NoApolloCall
  /\ ap_out = NoApolloCall

\* no scrape thread was started
SessionIdle ==
  /\ li = [driver |-> FALSE, logged_in |-> FALSE]
  /\ cookies_file = FALSE
  /\ cookie_writes = {}
  /\ threads = <<>>

\* an empty dict
EmptyDict == [k \in {} |-> 0]

\* no result is being collected
ResultIdle ==
  /\ ag_pc = "none"
  /\ ag_pages = <<>>
  /\ ag_i = 0
  /\ contact_urls = <<>>
  /\ social_links = EmptyDict
  /\ ag_info = EmptyDict

\* no scroll loop is running
ScrollIdle ==
  /\ scr_pc = "none"
  /\ scr_fn = "none"
  /\ scr_count = 0
  /\ scr_page = 0
  /\ scr_height = 0
  /\ scr_iter = 0
  /\ scr_grew = FALSE

ServicesIdle ==
  /\ RequestsIdle /\ ScoreIdle /\ CrawlIdle /\ ApolloIdle
  /\ SessionIdle /\ ResultIdle /\ ScrollIdle

Init ==
  /\ ServicesIdle
  /\ cfg \in [linkedin : BOOLEAN, apollo : BOOLEAN, gemini : BOOLEAN, db : BOOLEAN]
  /\ header_ok \in BOOLEAN
  /\ nrows \in 0..MaxRows
  /\ rows = <<>>
  /\ results = <<>>
  /\ batchpc = "start"
  /\ pc = "idle"
  /\ arg = NoArg
  /\ prospect_id = 0
  /\ raw_data = EmptyBag
  /\ apollo_ret = NoApollo
  /\ contact_i = 0
  /\ response = NoResponse
  /\ norm = NotRun
  /\ ret = NoRet
  /\ log = <<>>
  /\ companies = <<>>
  /\ contacts_tbl = <<>>
  /\ scraper = [driver |-> FALSE, logged_in |-> FALSE]

\* ------------------------------------------------------------------------
\* Storage (SupabaseClient); the client catches its own exceptions
\* ------------------------------------------------------------------------
\* insert_company with the initial record of process_company
insert_company(tbl, id) ==
  tbl @@ (id :> [campaign_status |-> "Processing",
                 company_name |-> "short_str",
                 data_quality_score |-> -1,
                 written |-> {}])

\* update_company: the fields of upd replace those of the stored record
update_company(tbl, id, upd) ==
  IF id \notin DOMAIN tbl THEN tbl
  ELSE [tbl EXCEPT ![id] =
          [f \in DOMAIN tbl[id] |->
             IF f \in DOMAIN upd THEN upd[f] ELSE tbl[id][f]]]

\* get_contacts_by_company
get_contacts_by_company(tbl, id) ==
  SelectSeq(tbl, LAMBDA c : c.company_id = id)

\* the value of a string field: two strings are equal when they are of the
\* same person; a missing key reads as None (dict.get)
Val(kind, who) ==
  IF kind \in {"short_str", "long_str"} THEN <<kind, who>>
  ELSE IF kind \in {"absent", "null"} THEN <<"null", 0>>
  ELSE <<kind, 0>>

\* ------------------------------------------------------------------------
\* process_company
\* ------------------------------------------------------------------------
\* stage events: a stage starts, and ends by returning ("end") or by an
\* exception reaching process_company ("raise")
Event(ev, stage) == [ev |-> ev, stage |-> stage]

\* StageAfter with the enrichment step placed before the crawl
StageAfter_enrichfirst(stage) ==
  CASE stage = "begin" -> "enrich"
    [] stage = "enrich" -> "crawl"
    [] stage = "crawl" -> "li_company"
    [] stage = "li_company" -> "li_profiles"
    [] stage = "li_profiles" -> "normalize"

\* the order in which process_company runs its steps
StageAfter(stage) ==
  CASE stage = "begin" -> "crawl"
    [] stage = "crawl" -> "enrich"
    [] stage = "enrich" -> "li_company"
    [] stage = "li_company" -> "li_profiles"
    [] stage = "li_profiles" -> "normalize"

\* TerminalStatus with an except branch that writes the partial-data status
TerminalStatus_partial(gemini_configured, normalized_ok) ==
  IF ~gemini_configured THEN "Partial Data"
  ELSE IF normalized_ok THEN "Data Ready"
  ELSE "Partial Data"

\* the campaign_status process_company writes at its end
TerminalStatus(gemini_configured, normalized_ok) ==
  IF ~gemini_configured THEN "Partial Data"
  ELSE IF normalized_ok THEN "Data Ready"
  ELSE "Error"

\* what 'await x' does: x is awaited when the callee is a coroutine
\* function; the await of a plain value raises TypeError
Await(is_coroutine) == IF is_coroutine THEN Passed ELSE Raised("TypeError")

\* ApolloIntegration.enrich_company_and_contacts is defined with 'def'
enrich_is_coroutine == FALSE

\* lines 119-144: new prospect id, initial database entry, empty bag
ProcessCompanyBegin ==
  /\ pc = "begin"
  /\ prospect_id' = Len(results) + 1
  /\ companies' = IF cfg.db THEN insert_company(companies, prospect_id')
                  ELSE companies
  /\ raw_data' = EmptyBag
  /\ pc' = StageAfter("begin")
  /\ UNCHANGED <<cfg, service_vars, batch_vars, arg, apollo_ret, contact_i,
                 response, norm, ret, log, contacts_tbl, scraper>>

\* Crawl without the try / except around the crawler call
Crawl_notry ==
  /\ pc = "crawl"
  /\ IF arg.website
       THEN \E outcome \in {"data", "raise"} :
              /\ raw_data' = [raw_data EXCEPT !.website_data =
                                IF outcome = "data" THEN "data" ELSE @]
              /\ companies' =
                   IF outcome = "data" /\ cfg.db
                     THEN update_company(companies, prospect_id,
                            [written |-> companies[prospect_id].written
                                           \cup {"website"}])
                     ELSE companies
              /\ log' = log \o <<Event("start", "crawl"),
                                  Event(IF outcome = "data" THEN "end" ELSE "raise",
                                        "crawl")>>
              /\ pc' = IF outcome = "data" THEN StageAfter("crawl") ELSE "raised"
       ELSE /\ UNCHANGED <<raw_data, companies, log>>
            /\ pc' = StageAfter("crawl")
  /\ UNCHANGED <<cfg, service_vars, batch_vars, arg, prospect_id, apollo_ret,
                 contact_i, response, norm, ret, contacts_tbl, scraper>>

\* Step 1, lines 146-163: crawl the website when a URL was given; the
\* crawler returns its result or raises
Crawl ==
  /\ pc = "crawl"
  /\ IF arg.website
       THEN \E outcome \in {"data", "raise"} :
              /\ raw_data' = [raw_data EXCEPT !.website_data =
                                IF outcome = "data" THEN "data" ELSE "error"]
              /\ companies' =
                   IF outcome = "data" /\ cfg.db
                     THEN update_company(companies, prospect_id,
                            [written |-> companies[prospect_id].written
                                           \cup {"website"}])
                     ELSE companies
              /\ log' = log \o <<Event("start", "crawl"),
                                  Event(IF outcome = "data" THEN "end" ELSE "raise",
                                        "crawl")>>
       ELSE UNCHANGED <<raw_data, companies, log>>
  /\ pc' = StageAfter("crawl")
  /\ UNCHANGED <<cfg, service_vars, batch_vars, arg, prospect_id, apollo_ret,
                 contact_i, response, norm, ret, contacts_tbl, scraper>>

\* the contact record process_company inserts for a person of the
\* enrichment result (lines 199-208)
ApolloContact(id, person) ==
  [company_id |-> id, src |-> "apollo",
   name |-> Val("long_str", person.who),
   email_primary |-> Val("long_str", person.who),
   linkedin_profile_url |-> person.linkedin_url,
   profile_written |-> FALSE, normalized |-> FALSE]

\* Step 2, lines 165-214: the enrichment call returns r, the coordinator
\* awaits the returned value, and only then stores it in the bag and in
\* the database; any exception leaves the error marker in the bag
Enrich ==
  /\ pc = "enrich"
  /\ IF cfg.apollo
       THEN \E r \in ApolloReturns :
              /\ apollo_ret' = r
              /\ IF Await(enrich_is_coroutine).ok
                   THEN /\ raw_data' = [raw_data EXCEPT !.apollo_data =
                                          [kind |-> r.kind,
                                           contacts |-> r.contacts]]
                        /\ companies' =
                             IF cfg.db
                               THEN update_company(companies, prospect_id,
                                      [written |-> companies[prospect_id].written
                                                     \cup {"apollo"}])
                               ELSE companies
                        /\ contacts_tbl' =
                             IF cfg.db
                               THEN contacts_tbl \o
                                      [i \in 1..Len(r.contacts) |->
                                         ApolloContact(prospect_id, r.contacts[i])]
                               ELSE contacts_tbl
                   ELSE /\ raw_data' = [raw_data EXCEPT !.apollo_data =
                                          [kind |-> "error", contacts |-> <<>>]]
                        /\ UNCHANGED <<companies, contacts_tbl>>
              /\ log' = log \o <<Event("start", "enrich"),
                                  Event(IF Await(enrich_is_coroutine).ok
                                          THEN "end" ELSE "raise", "enrich")>>
       ELSE UNCHANGED <<raw_data, apollo_ret, companies, contacts_tbl, log>>
  /\ pc' = StageAfter("enrich")
  /\ UNCHANGED <<cfg, service_vars, batch_vars, arg, prospect_id, contact_i,
                 response, norm, ret, scraper>>

\* LinkedInScraper.scrape_company / scrape_profile as the caller sees them:
\* without a session they log in first, and login opens the browser before
\* its own try block, so a browser that fails to start raises; everything
\* else that fails yields None
ScrapeOutcomes(s) ==
  IF s.logged_in
    THEN {[result |-> r, scraper |-> s] : r \in {"data", "none"}}
    ELSE (IF s.driver THEN {}
          ELSE {[result |-> "raise", scraper |-> s],
                [result |-> "raise", scraper |-> [s EXCEPT !.driver = TRUE]]})
         \cup {[result |-> r, scraper |-> [driver |-> TRUE, logged_in |-> TRUE]] :
                 r \in {"data", "none"}}
         \cup {[result |-> "none",
                scraper |-> [driver |-> TRUE, logged_in |-> FALSE]]}

\* Step 3, lines 216-222: hand the company scrape to a worker thread
LiCompanyStart ==
  /\ pc = "li_company"
  /\ IF cfg.linkedin /\ arg.linkedin
       THEN /\ pc' = "li_company_wait"
            /\ log' = Append(log, Event("start", "li_company"))
       ELSE /\ pc' = StageAfter("li_company")
            /\ log' = log
  /\ apollo_ret' = NoApollo
  /\ UNCHANGED <<cfg, service_vars, batch_vars, arg, prospect_id, raw_data,
                 contact_i, response, norm, ret, store_vars, scraper>>

\* Step 3, lines 220-232: the worker thread is done
LiCompanyDone ==
  /\ pc = "li_company_wait"
  /\ \E o \in ScrapeOutcomes(scraper) :
       /\ scraper' = o.scraper
       /\ raw_data' = [raw_data EXCEPT !.linkedin_data =
                         CASE o.result = "data" -> "data"
                           [] o.result = "raise" -> "error"
                           [] OTHER -> @]
       /\ log' = Append(log, Event(IF o.result = "raise" THEN "raise" ELSE "end",
                                   "li_company"))
  /\ pc' = StageAfter("li_company")
  /\ UNCHANGED <<cfg, service_vars, batch_vars, arg, prospect_id, apollo_ret,
                 contact_i, response, norm, ret, store_vars>>

\* the contacts the profile-scrape stage iterates over (line 238)
BagContacts(bag) ==
  IF bag.apollo_data.kind = "record" THEN bag.apollo_data.contacts ELSE <<>>

\* Step 4, lines 234-238: the stage runs when the bag has an apollo_data key
LiProfilesEnter ==
  /\ pc = "li_profiles"
  /\ IF cfg.linkedin /\ raw_data.apollo_data.kind # "none"
       THEN /\ raw_data' = [raw_data EXCEPT !.individual_profiles =
                              [present |-> TRUE, items |-> <<>>]]
            /\ contact_i' = 1
            /\ pc' = "li_profile_loop"
       ELSE /\ pc' = StageAfter("li_profiles")
            /\ UNCHANGED <<raw_data, contact_i>>
  /\ UNCHANGED <<cfg, service_vars, batch_vars, arg, prospect_id, apollo_ret,
                 response, norm, ret, log, store_vars, scraper>>

\* update_contact of lines 257-275: the first stored contact of the prospect
\* with this LinkedIn URL receives the profile summaries
RECURSIVE WriteProfile(_, _, _, _)
WriteProfile(tbl, id, who, i) ==
  IF i > Len(tbl) THEN tbl
  ELSE IF /\ tbl[i].company_id = id
          /\ tbl[i].linkedin_profile_url
          /\ tbl[i].name = Val("long_str", who)
    THEN [tbl EXCEPT ![i].profile_written = TRUE]
    ELSE WriteProfile(tbl, id, who, i + 1)

\* Step 4, lines 239-281: the loop over the contacts of the bag; a contact
\* with a LinkedIn URL is scraped in a worker thread
LiProfileLoop ==
  /\ pc \in {"li_profile_loop", "li_profile_wait"}
  /\ LET contacts == BagContacts(raw_data) IN
     IF pc = "li_profile_loop"
       THEN /\ IF contact_i > Len(contacts)
                 THEN /\ pc' = StageAfter("li_profiles")
                      /\ contact_i' = 0
                      /\ log' = log
                 ELSE IF ~contacts[contact_i].linkedin_url
                 THEN /\ pc' = "li_profile_loop"
                      /\ contact_i' = contact_i + 1
                      /\ log' = log
                 ELSE /\ pc' = "li_profile_wait"
                      /\ contact_i' = contact_i
                      /\ log' = Append(log, Event("start", "li_profiles"))
            /\ UNCHANGED <<raw_data, contacts_tbl, scraper>>
       ELSE \E o \in ScrapeOutcomes(scraper) :
              /\ scraper' = o.scraper
              /\ raw_data' =
                   [raw_data EXCEPT !.individual_profiles.items =
                      CASE o.result = "data" -> Append(@, "data")
                        [] o.result = "raise" -> Append(@, "error")
                        [] OTHER -> @]
              /\ contacts_tbl' =
                   IF o.result = "data" /\ cfg.db
                     THEN WriteProfile(contacts_tbl, prospect_id,
                                       contacts[contact_i].who, 1)
                     ELSE contacts_tbl
              /\ log' = Append(log, Event(IF o.result = "raise" THEN "raise"
                                          ELSE "end", "li_profiles"))
              /\ contact_i' = contact_i + 1
              /\ pc' = "li_profile_loop"
  /\ UNCHANGED <<cfg, service_vars, batch_vars, arg, prospect_id, apollo_ret,
                 response, norm, ret, companies>>

\* Step 5, lines 283-289 and 372-387: start the model call, or, without a
\* transformer, write the partial-data status and return
NormalizeStart ==
  /\ pc = "normalize"
  /\ IF cfg.gemini
       THEN /\ pc' = "llm_wait"
            /\ log' = Append(log, Event("start", "normalize"))
            /\ UNCHANGED <<companies, ret>>
       ELSE /\ companies' =
                 IF cfg.db
                   THEN update_company(companies, prospect_id,
                          [campaign_status |-> TerminalStatus(FALSE, FALSE)])
                   ELSE companies
            /\ ret' = Result(TRUE, "warning", prospect_id, -1, -1)
            /\ pc' = "returned"
            /\ log' = log
  /\ UNCHANGED <<cfg, service_vars, batch_vars, arg, prospect_id, raw_data,
                 apollo_ret, contact_i, response, norm, contacts_tbl,
                 scraper>>

\* Step 5, lines 289-309 and 355-371: process_scraped_data returned the
\* record, which is written to the company, or raised, which is written as
\* the error status and returned as a failure
NormalizeDone ==
  /\ pc = "llm_wait"
  /\ \E r \in Responses :
       LET out == process_scraped_data(r) IN
       /\ response' = r
       /\ norm' = [ran |-> TRUE, res |-> out.res, data |-> out.data]
       /\ IF out.res.ok
            THEN /\ companies' =
                      IF cfg.db
                        THEN update_company(companies, prospect_id,
                               [company_name |->
                                  IF out.data.company["name"] = "absent"
                                    THEN companies[prospect_id].company_name
                                    ELSE out.data.company["name"],
                                campaign_status |-> TerminalStatus(TRUE, TRUE),
                                data_quality_score |-> out.data.data_quality_score,
                                written |-> companies[prospect_id].written
                                              \cup {"normalized"}])
                        ELSE companies
                 /\ pc' = "writeback"
                 /\ ret' = ret
            ELSE /\ companies' =
                      IF cfg.db
                        THEN update_company(companies, prospect_id,
                               [campaign_status |-> TerminalStatus(TRUE, FALSE)])
                        ELSE companies
                 /\ ret' = Result(FALSE, "error", prospect_id, -1, -1)
                 /\ pc' = "returned"
       /\ log' = Append(log, Event(IF out.res.ok THEN "end" ELSE "raise",
                                   "normalize"))
  /\ UNCHANGED <<cfg, service_vars, batch_vars, arg, prospect_id, raw_data,
                 apollo_ret, contact_i, contacts_tbl, scraper>>

\* lines 321-322: match by email or name
Match(t, d) ==
  \/ Val(t.f["email_primary"], t.who) = d.email_primary
  \/ Val(t.f["name"], t.who) = d.name

\* the record insert_contact stores for a canonical contact (lines 342-344)
GeminiContact(id, t) ==
  [company_id |-> id, src |-> "gemini",
   name |-> Val(t.f["name"], t.who),
   email_primary |-> Val(t.f["email_primary"], t.who),
   linkedin_profile_url |-> FALSE,
   profile_written |-> FALSE, normalized |-> TRUE]

\* index of the first contact of db_contacts that matches t, 0 if none
FirstMatch(db, id, t) ==
  LET S == {j \in 1..Len(db) : db[j].company_id = id /\ Match(t, db[j])}
  IN  IF S = {} THEN 0 ELSE CHOOSE j \in S : \A k \in S : j <= k

RECURSIVE WriteContacts(_, _, _, _, _)
\* lines 315-344: every canonical contact, from index i on, updates the
\* first matching contact of db_contacts (read once, before the loop) or is
\* inserted
WriteContacts(tbl, db, id, contacts, i) ==
  IF i > Len(contacts) THEN tbl
  ELSE LET j == FirstMatch(db, id, contacts[i])
       IN  WriteContacts(
             IF j = 0 THEN Append(tbl, GeminiContact(id, contacts[i]))
             ELSE [tbl EXCEPT ![j].normalized = TRUE],
             db, id, contacts, i + 1)

\* lines 311-353: write the contacts back and return the success result
WriteBack ==
  /\ pc = "writeback"
  /\ contacts_tbl' =
       IF cfg.db
         THEN WriteContacts(contacts_tbl, contacts_tbl, prospect_id,
                            norm.data.contacts, 1)
         ELSE contacts_tbl
  /\ ret' = Result(TRUE, "ok", prospect_id, norm.data.data_quality_score,
                   Len(norm.data.contacts))
  /\ pc' = "returned"
  /\ UNCHANGED <<cfg, service_vars, batch_vars, arg, prospect_id, raw_data,
                 apollo_ret, contact_i, response, norm, log, companies,
                 scraper>>

\* ------------------------------------------------------------------------
\* process_companies_from_csv
\* ------------------------------------------------------------------------
\* lines 400-423: parse, check the header
CsvStart ==
  /\ batchpc = "start"
  /\ IF header_ok
       THEN /\ batchpc' = "loop"
            /\ results' = results
       ELSE /\ batchpc' = "returned"
            /\ results' = <<Result(FALSE, "header_error", 0, -1, -1)>>
  /\ UNCHANGED <<cfg, service_vars, header_ok, nrows, rows, pc, arg,
                 prospect_id, raw_data, apollo_ret, contact_i, response, norm,
                 ret, log, store_vars, scraper>>

\* lines 424-442: the next line; a line with too few values or a blank
\* name is skipped, any other starts process_company
CsvRow ==
  /\ batchpc = "loop"
  /\ pc = "idle"
  /\ Len(rows) < nrows
  /\ \E row \in RowSet :
       /\ rows' = Append(rows, row)
       /\ IF row.wellformed
            THEN /\ pc' = "begin"
                 /\ arg' = [website |-> row.website, linkedin |-> row.linkedin]
            ELSE UNCHANGED <<pc, arg>>
  /\ UNCHANGED <<cfg, service_vars, header_ok, nrows, results, batchpc,
                 prospect_id, raw_data, apollo_ret, contact_i, response, norm,
                 ret, log, store_vars, scraper>>

\* CsvCollect with a loop that stops at the first failed company
CsvCollect_abort ==
  /\ batchpc = "loop"
  /\ pc \in {"returned", "raised"}
  /\ results' = Append(results,
                  IF pc = "returned" THEN ret
                  ELSE Result(FALSE, "line_error", 0, -1, -1))
  /\ batchpc' = IF pc = "returned" /\ ret.success THEN batchpc ELSE "returned"
  /\ pc' = "idle"
  /\ arg' = NoArg
  /\ prospect_id' = 0
  /\ raw_data' = EmptyBag
  /\ apollo_ret' = NoApollo
  /\ contact_i' = 0
  /\ response' = NoResponse
  /\ norm' = NotRun
  /\ ret' = NoRet
  /\ log' = <<>>
  /\ UNCHANGED <<cfg, service_vars, header_ok, nrows, rows, store_vars,
                 scraper>>

\* lines 444-452: the result of the call is appended; an exception of the
\* call becomes the error result of the line
CsvCollect ==
  /\ batchpc = "loop"
  /\ pc \in {"returned", "raised"}
  /\ results' = Append(results,
                  IF pc = "returned" THEN ret
                  ELSE Result(FALSE, "line_error", 0, -1, -1))
  /\ pc' = "idle"
  /\ arg' = NoArg
  /\ prospect_id' = 0
  /\ raw_data' = EmptyBag
  /\ apollo_ret' = NoApollo
  /\ contact_i' = 0
  /\ response' = NoResponse
  /\ norm' = NotRun
  /\ ret' = NoRet
  /\ log' = <<>>
  /\ UNCHANGED <<cfg, service_vars, header_ok, nrows, rows, batchpc,
                 store_vars, scraper>>

\* lines 454-455: all lines read
CsvReturn ==
  /\ batchpc = "loop"
  /\ pc = "idle"
  /\ Len(rows) = nrows
  /\ batchpc' = "returned"
  /\ UNCHANGED <<cfg, service_vars, header_ok, nrows, rows, results, pc, arg,
                 prospect_id, raw_data, apollo_ret, contact_i, response, norm,
                 ret, log, store_vars, scraper>>

\* ------------------------------------------------------------------------
\* Cancellation
\* ------------------------------------------------------------------------
\* the awaits at which the task is suspended: the worker threads of the
\* scrapes and the model call (the storage client and the crawler do not
\* yield to the event loop)
SuspensionPoints == {"li_company_wait", "li_profile_wait", "llm_wait"}

\* TaskManager.cancel_task: task.cancel() raises CancelledError at the await
\* the task is suspended at; no handler of process_company or of
\* process_companies_from_csv catches it ('except Exception')
cancel_task ==
  /\ batchpc = "loop"
  /\ pc \in SuspensionPoints
  /\ pc' = "cancelled"
  /\ batchpc' = "cancelled"
  /\ UNCHANGED <<cfg, service_vars, header_ok, nrows, rows, results, arg,
                 prospect_id, raw_data, apollo_ret, contact_i, response, norm,
                 ret, log, store_vars, scraper>>

Next ==
  \/ CsvStart
  \/ CsvRow
  \/ CsvCollect
  \/ CsvReturn
  \/ ProcessCompanyBegin
  \/ Crawl
  \/ Enrich
  \/ LiCompanyStart
  \/ LiCompanyDone
  \/ LiProfilesEnter
  \/ LiProfileLoop
  \/ NormalizeStart
  \/ NormalizeDone
  \/ WriteBack
  \/ cancel_task

Spec == Init /\ [][Next]_vars

\* ------------------------------------------------------------------------
\* The normalization engine on its own: any decoded response is transformed
\* ------------------------------------------------------------------------
\* number of contacts of a decoded response
MaxContacts == 2

ContactChoices ==
  {NotADict, ContactObj(1, "null", "null", "null")} \cup
  {ContactObj(1, n, e, "null") : n \in {"absent", "long_str"},
                                 e \in {"absent", "long_str"}}

ContactSeqs == UNION {[1..n -> ContactChoices] : n \in 0..MaxContacts}

RequiredKinds == {"absent", "empty_str", "long_str"}

\* the decoded responses whose contacts are one of the sequences seqs
AllResponses(seqs) ==
  { [Response(k, cd, CompanyObj(n, w, i, "null"), cl, cs) EXCEPT !.toptype = t] :
      t \in {"dict", "list", "scalar"}, k \in SUBSET CK, cd \in BOOLEAN,
      n \in RequiredKinds, w \in RequiredKinds, i \in RequiredKinds,
      cl \in BOOLEAN, cs \in seqs }

InitTransform ==
  /\ ServicesIdle
  /\ cfg = [linkedin |-> FALSE, apollo |-> FALSE, gemini |-> TRUE, db |-> FALSE]
  /\ header_ok = TRUE
  /\ nrows = 0
  /\ rows = <<>>
  /\ results = <<>>
  /\ batchpc = "none"
  /\ pc = "transform"
  /\ arg = NoArg
  /\ prospect_id = 0
  /\ raw_data = EmptyBag
  /\ apollo_ret = NoApollo
  /\ contact_i = 0
  /\ response \in AllResponses(ContactSeqs)
  /\ norm = NotRun
  /\ ret = NoRet
  /\ log = <<>>
  /\ companies = <<>>
  /\ contacts_tbl = <<>>
  /\ scraper = [driver |-> FALSE, logged_in |-> FALSE]

\* GeminiDataTransformer.process_scraped_data on the response
Transform ==
  /\ pc = "transform"
  /\ LET out == process_scraped_data(response)
     IN  norm' = [ran |-> TRUE, res |-> out.res, data |-> out.data]
  /\ pc' = "transformed"
  /\ UNCHANGED <<cfg, service_vars, batch_vars, arg, prospect_id, raw_data,
                 apollo_ret, contact_i, response, ret, log, store_vars,
                 scraper>>

NextTransform == Transform

SpecTransform == InitTransform /\ [][NextTransform]_vars

\* ------------------------------------------------------------------------
\* Specification of _make_request: threads call it, each call's HTTP
\* attempts are answered by the server, time passes
\* ------------------------------------------------------------------------
pipeline_vars == <<cfg, header_ok, nrows, rows, results, batchpc, pc, arg,
                   prospect_id, raw_data, apollo_ret, contact_i, response,
                   norm, ret, log, companies, contacts_tbl, scraper>>

\* no pipeline is constructed
PipelineOff ==
  /\ cfg = [linkedin |-> FALSE, apollo |-> FALSE, gemini |-> FALSE, db |-> FALSE]
  /\ header_ok = TRUE
  /\ nrows = 0
  /\ rows = <<>>
  /\ results = <<>>
  /\ batchpc = "none"
  /\ pc = "none"
  /\ arg = NoArg
  /\ prospect_id = 0
  /\ raw_data = EmptyBag
  /\ apollo_ret = NoApollo
  /\ contact_i = 0
  /\ response = NoResponse
  /\ norm = NotRun
  /\ ret = NoRet
  /\ log = <<>>
  /\ companies = <<>>
  /\ contacts_tbl = <<>>
  /\ scraper = [driver |-> FALSE, logged_in |-> FALSE]

\* what the server answers to one HTTP request: a 2xx with a JSON body; a
\* 429, a 5xx, a connection reset or a timeout; a 4xx other than 429
HttpAnswers == {"ok", "transient", "permanent"}

\* requests raises a RequestException for each failing answer:
\* raise_for_status() for every 4xx and 5xx status, ConnectionError,
\* Timeout
RaisesRequestException(answer) == answer \in {"transient", "permanent"}

\* on_exception(expo, (RequestException, HTTPError), max_tries=3): the
\* exceptions the decorator retries; no giveup predicate is passed
Retryable(answer) == RaisesRequestException(answer)

\* expo(): 1, 2, 4, ... seconds before the jitter
expo(n) == 2 ^ (n - 1)

\* full_jitter: a wait drawn from [0, expo]
BackoffWaits(n) == 0..expo(n)

InitRequests ==
  /\ PipelineOff
  /\ ScrollIdle
  /\ ResultIdle
  /\ SessionIdle
  /\ RequestsIdle
  /\ ScoreIdle
  /\ CrawlIdle
  /\ ApolloIdle

\* a thread calls _make_request (the caller has caught the exception of its
\* previous call)
CallStart(c) ==
  /\ callers[c].pc \in {"idle", "raised"}
  /\ calls_made < MaxCalls
  /\ calls_made' = calls_made + 1
  /\ callers' = [callers EXCEPT ![c] = [IdleCaller EXCEPT !.pc = "limits"]]
  /\ UNCHANGED <<pipeline_vars, scroll_vars, result_vars, session_vars,
                 score_vars, crawl_vars, apollo_vars, clock, last_reset,
                 num_calls, window_sent, started>>

\* the wrapper of limits(), under its lock: the window is reset when it
\* has elapsed, the call is counted, and a call over the limit raises
\* RateLimitException(period_remaining), which sleep_and_retry turns into
\* time.sleep(period_remaining)
Limits(c) ==
  /\ callers[c].pc = "limits"
  /\ LET period_remaining == Period - (clock - last_reset)
         reset == period_remaining <= 0
         n == (IF reset THEN 0 ELSE num_calls) + 1
     IN  /\ last_reset' = IF reset THEN clock ELSE last_reset
         /\ window_sent' = IF reset THEN 0 ELSE window_sent
         /\ num_calls' = n
         /\ IF n > APOLLO_RATE_LIMIT
              THEN /\ callers' = [callers EXCEPT ![c].pc = "rate_sleep",
                                                 ![c].wake = clock + period_remaining]
                   /\ UNCHANGED started
              ELSE /\ callers' = [callers EXCEPT ![c].pc = "attempt"]
                   /\ started' = [n |-> started.n + 1,
                                  first |-> IF started.n = 0 THEN clock
                                            ELSE started.first,
                                  last |-> clock]
  /\ UNCHANGED <<pipeline_vars, scroll_vars, result_vars, session_vars,
                 score_vars, crawl_vars, apollo_vars, clock, calls_made>>

\* sleep_and_retry: the sleep is over, the call goes to the limiter again
RateWake(c) ==
  /\ callers[c].pc = "rate_sleep"
  /\ clock >= callers[c].wake
  /\ callers' = [callers EXCEPT ![c].pc = "limits"]
  /\ UNCHANGED <<pipeline_vars, scroll_vars, result_vars, session_vars,
                 score_vars, crawl_vars, apollo_vars, clock, last_reset,
                 num_calls, calls_made, window_sent, started>>

\* one try of on_exception: the body of _make_request sends the request
\* (lines 72-87); an exception of the retried classes is retried after the
\* backoff wait until max_tries tries are made, then re-raised (a sleep that
\* ends after the clock has stopped never ends)
Attempt(c) ==
  /\ callers[c].pc = "attempt"
  /\ window_sent' = IF clock < last_reset + Period THEN window_sent + 1
                    ELSE window_sent
  /\ \E answer \in HttpAnswers :
       LET tries == callers[c].tries + 1 IN
       IF ~RaisesRequestException(answer)
         THEN callers' = [callers EXCEPT ![c].pc = "idle", ![c].tries = 0,
                                         ![c].resp = "none"]
         ELSE IF ~Retryable(answer) \/ tries = max_tries
           THEN callers' = [callers EXCEPT ![c].pc = "raised",
                                           ![c].tries = tries,
                                           ![c].resp = answer]
           ELSE \E w \in BackoffWaits(tries) :
                  callers' = [callers EXCEPT ![c].pc = "backoff",
                                             ![c].tries = tries,
                                             ![c].resp = answer,
                                             ![c].wake = Min(clock + w, MaxClock + 1)]
  /\ UNCHANGED <<pipeline_vars, scroll_vars, result_vars, session_vars,
                 score_vars, crawl_vars, apollo_vars, clock, last_reset,
                 num_calls, calls_made, started>>

\* on_exception: the backoff sleep is over
BackoffWake(c) ==
  /\ callers[c].pc = "backoff"
  /\ clock >= callers[c].wake
  /\ callers' = [callers EXCEPT ![c].pc = "attempt"]
  /\ UNCHANGED <<pipeline_vars, scroll_vars, result_vars, session_vars,
                 score_vars, crawl_vars, apollo_vars, clock, last_reset,
                 num_calls, calls_made, window_sent, started>>

\* time passes
Tick ==
  /\ pc = "none"
  /\ clock < MaxClock
  /\ clock' = clock + 1
  /\ UNCHANGED <<pipeline_vars, scroll_vars, result_vars, session_vars,
                 score_vars, crawl_vars, apollo_vars, last_reset, num_calls,
                 callers, calls_made, window_sent, started>>

NextRequests ==
  \/ \E c \in Callers : CallStart(c)
  \/ \E c \in Callers : Limits(c)
  \/ \E c \in Callers : RateWake(c)
  \/ \E c \in Callers : Attempt(c)
  \/ \E c \in Callers : BackoffWake(c)
  \/ Tick

SpecRequests == InitRequests /\ [][NextRequests]_vars

\* ------------------------------------------------------------------------
\* Specification of _calculate_data_quality_score: a record is scored, one
\* of its empty fields is filled, and it is scored again
\* ------------------------------------------------------------------------
\* contacts of a record to score
MaxScored == 6

\* values that hold no data: a missing key, null, an empty or a short
\* (placeholder) string, an empty list or dict, zero
EmptyKinds ==
  {"absent", "null", "empty_str", "short_str", "empty_list", "empty_dict",
   "zero"}
\* values that hold data
FilledKinds == ValKinds \ EmptyKinds

\* the filled value of a field, of the type the schema of the prompt gives
\* the field (gemini_transformer.py, lines 166-207)
FilledValue(f) ==
  CASE f \in {"technologies_used", "phone_numbers",
              "scraped_linkedin_recent_activity"} -> "list"
    [] f = "social_profiles" -> "dict"
    [] f = "founded_year" -> "number"
    [] OTHER -> "long_str"

\* the keys of company_field_weights, in the order of the dict
company_field_order ==
  <<"name", "website_url", "linkedin_url", "industry", "revenue_range",
    "employee_count_range", "technologies_used",
    "mission_vision_offerings_summary", "recent_company_activity_summary",
    "contact_form_url", "description", "founded_year", "headquarters">>

\* a company whose first k fields are filled and whose other fields hold u
PrefixCompany(k, u) ==
  [f \in CompanyFields |->
     IF \E i \in 1..k : company_field_order[i] = f THEN "long_str" ELSE u]

ScoreCompanies ==
  {PrefixCompany(k, "absent") : k \in 0..Len(company_field_order)} \cup
  {PrefixCompany(0, u) : u \in {"null", "empty_str", "short_str"}}

ScoreRecords ==
  {[company |-> c, contacts |-> cs] :
     c \in ScoreCompanies,
     cs \in UNION {[1..n -> {SparseContact, GoodContact}] : n \in 0..MaxScored}}

InitScore ==
  /\ PipelineOff
  /\ ScrollIdle
  /\ ResultIdle
  /\ SessionIdle
  /\ RequestsIdle
  /\ CrawlIdle
  /\ ApolloIdle
  /\ sc_pc = "new"
  /\ sc_data \in ScoreRecords
  /\ sc_score = -1
  /\ sc_prev = -1

\* _calculate_data_quality_score(data)
ScoreRecord ==
  /\ sc_pc = "new"
  /\ sc_score' \in FloatScores(sc_data)
  /\ sc_pc' = "scored"
  /\ UNCHANGED <<pipeline_vars, scroll_vars, result_vars, session_vars,
                 request_vars, crawl_vars, apollo_vars, sc_data, sc_prev>>

\* an empty field of the company gets a value, and the record is scored
\* again
FillCompanyField ==
  /\ sc_pc = "scored"
  /\ \E f \in CompanyFields :
       /\ sc_data.company[f] \in EmptyKinds
       /\ sc_data' = [sc_data EXCEPT !.company[f] = FilledValue(f)]
  /\ sc_prev' = sc_score
  /\ sc_score' \in FloatScores(sc_data')
  /\ sc_pc' = "filled"
  /\ UNCHANGED <<pipeline_vars, scroll_vars, result_vars, session_vars,
                 request_vars, crawl_vars, apollo_vars>>

\* an empty field of a contact gets a value, and the record is scored again
FillContactField ==
  /\ sc_pc = "scored"
  /\ \E i \in 1..Len(sc_data.contacts), f \in ContactFields :
       /\ sc_data.contacts[i].f[f] \in EmptyKinds
       /\ sc_data' = [sc_data EXCEPT !.contacts[i].f[f] = FilledValue(f)]
  /\ sc_prev' = sc_score
  /\ sc_score' \in FloatScores(sc_data')
  /\ sc_pc' = "filled"
  /\ UNCHANGED <<pipeline_vars, scroll_vars, result_vars, session_vars,
                 request_vars, crawl_vars, apollo_vars>>

NextScore == ScoreRecord \/ FillCompanyField \/ FillContactField

SpecScore == InitScore /\ [][NextScore]_vars

\* ------------------------------------------------------------------------
\* Specification of WebsiteCrawler.scrape_website: the site answers each
\* fetch with an error or with a page and its links
\* ------------------------------------------------------------------------
\* pages of the site besides the root and the contact page
NPages == 2
\* links on a page
MaxLinks == 2
\* largest max_pages and max_depth a crawler is constructed with
MaxPagesArg == 2
MaxDepthArg == 2

\* a URL: a page of the site, a page of the site whose URL contains
\* 'contact', a file of the site with a skipped extension (.pdf, .jpg, ...),
\* a page of another domain
Url(kind, id) == [kind |-> kind, id |-> id]
RootUrl == Url("page", 0)
Hrefs ==
  {RootUrl, Url("contact", 0), Url("asset", 0), Url("external", 0)} \cup
  {Url("page", i) : i \in 1..NPages}

\* the a[href] of a page, in document order
LinkLists == UNION {[1..n -> Hrefs] : n \in 0..MaxLinks}

\* _extract_internal_links keeps a link when its netloc is that of the root
\* and its URL does not end in a skipped extension
IsInternal(h) == h.kind \in {"page", "contact"}

\* "contact" in link.lower()
IsContactLink(h) == h.kind = "contact"

_extract_internal_links(links) == SelectSeq(links, IsInternal)

\* what _extract_internal_links gives for the pages of the site
InternalLinkLists == {_extract_internal_links(links) : links \in LinkLists}

RECURSIVE Enqueue_append(_, _, _, _, _)
\* Enqueue that appends every unvisited link, a contact link too
Enqueue_append(frontier, links, visited, depth, i) ==
  IF i > Len(links) THEN frontier
  ELSE Enqueue_append(
         IF links[i] \in visited THEN frontier
         ELSE Append(frontier, [url |-> links[i], depth |-> depth + 1]),
         links, visited, depth, i + 1)

RECURSIVE Enqueue(_, _, _, _, _)
\* lines 168-172: every unvisited link goes to the frontier, a contact link
\* to its front and any other link to its end
Enqueue(frontier, links, visited, depth, i) ==
  IF i > Len(links) THEN frontier
  ELSE Enqueue(
         IF links[i] \in visited THEN frontier
         ELSE IF IsContactLink(links[i])
           THEN <<[url |-> links[i], depth |-> depth + 1]>> \o frontier
           ELSE Append(frontier, [url |-> links[i], depth |-> depth + 1]),
         links, visited, depth, i + 1)

\* the keys of company_info (lines 191-204)
InfoKeys ==
  {"scraped_url", "domain", "scraped_website_text_snippet", "emails", "phones",
   "contact_form_url", "all_contact_urls", "social_profiles",
   "technologies_detected", "crawled_page_count", "raw_text_length",
   "scraped_at"}

\* lines 93-108
InitCrawl ==
  /\ PipelineOff
  /\ ScrollIdle
  /\ ResultIdle
  /\ SessionIdle
  /\ RequestsIdle
  /\ ScoreIdle
  /\ ApolloIdle
  /\ crawler \in [max_pages : 1..MaxPagesArg, max_depth : 0..MaxDepthArg]
  /\ cr_pc = "loop"
  /\ pages_to_visit = <<[url |-> RootUrl, depth |-> 0]>>
  /\ visited_urls = {}
  /\ page_count = 0
  /\ all_text = <<>>
  /\ fetched = <<>>
  /\ company_info = NoInfo

LoopRuns == pages_to_visit # <<>> /\ page_count < crawler.max_pages

\* a visited test that never finds the URL
Visited_never(u) == FALSE

\* line 113: 'current_url in visited_urls'
Visited(u) == u \in visited_urls

\* lines 110-114: the URL popped was visited before
SkipVisited ==
  /\ cr_pc = "loop"
  /\ LoopRuns
  /\ Visited(Head(pages_to_visit).url)
  /\ pages_to_visit' = Tail(pages_to_visit)
  /\ UNCHANGED <<pipeline_vars, scroll_vars, result_vars, session_vars,
                 request_vars, score_vars, apollo_vars, crawler, cr_pc,
                 visited_urls, page_count, all_text, fetched, company_info>>

\* lines 110-179: the URL popped is fetched; the fetch or the parsing
\* fails, or the page is processed: its content is accumulated, its links
\* are queued when it is not too deep, and the page is counted
FetchPage ==
  /\ cr_pc = "loop"
  /\ LoopRuns
  /\ LET current == Head(pages_to_visit)
         rest == Tail(pages_to_visit)
         visited == visited_urls \cup {current.url}
     IN  /\ ~Visited(current.url)
         /\ visited_urls' = visited
         /\ \E ok \in BOOLEAN :
              /\ fetched' = Append(fetched, [url |-> current.url,
                                             depth |-> current.depth,
                                             ok |-> ok])
              /\ IF ok
                   THEN /\ all_text' = Append(all_text, current.url)
                        /\ IF current.depth < crawler.max_depth
                             THEN \E new_links \in InternalLinkLists :
                                    pages_to_visit' =
                                      Enqueue(rest, new_links, visited,
                                              current.depth, 1)
                             ELSE pages_to_visit' = rest
                        /\ page_count' = page_count + 1
                   ELSE /\ pages_to_visit' = rest
                        /\ UNCHANGED <<all_text, page_count>>
  /\ UNCHANGED <<pipeline_vars, scroll_vars, result_vars, session_vars,
                 request_vars, score_vars, apollo_vars, crawler, cr_pc,
                 company_info>>

\* lines 181-209: the loop is over and the result is built
CrawlReturn ==
  /\ cr_pc = "loop"
  /\ ~LoopRuns
  /\ company_info' =
       [k \in InfoKeys |->
          CASE k = "scraped_url" -> <<RootUrl>>
            [] k = "crawled_page_count" -> <<page_count>>
            [] k = "scraped_website_text_snippet" -> all_text
            [] OTHER -> <<>>]
  /\ cr_pc' = "done"
  /\ UNCHANGED <<pipeline_vars, scroll_vars, result_vars, session_vars,
                 request_vars, score_vars, apollo_vars, crawler,
                 pages_to_visit, visited_urls, page_count, all_text, fetched>>

NextCrawl == SkipVisited \/ FetchPage \/ CrawlReturn

SpecCrawl == InitCrawl /\ [][NextCrawl]_vars

\* scrape_website is one sequential loop: it keeps taking steps until it
\* returns
SpecCrawlFair == SpecCrawl /\ WF_vars(NextCrawl)

\* ------------------------------------------------------------------------
\* The methods of ApolloIntegration called with every answer of the API
\* ------------------------------------------------------------------------
\* a caller with or without an identifier (domain, name or organization
\* id), an answer for organizations/enrich and one for mixed_people/search,
\* whose people have the email status the API gives them
InitApollo ==
  /\ PipelineOff
  /\ ScrollIdle
  /\ ResultIdle
  /\ SessionIdle
  /\ RequestsIdle
  /\ ScoreIdle
  /\ CrawlIdle
  /\ ap_pc = "new"
  /\ ap_in \in [has_ident : BOOLEAN, org : OrgAnswers,
                people : PeopleAnswers(PeopleLists(EmailStatuses))]
  /\ ap_out = NoApolloCall

\* enrich_company(domain, name)
CallEnrichCompany ==
  /\ ap_pc = "new"
  /\ ap_pc' = "done"
  /\ ap_out' = [method |-> "enrich_company",
                ret |-> enrich_company(ap_in.has_ident, ap_in.org)]
  /\ UNCHANGED <<pipeline_vars, scroll_vars, result_vars, session_vars,
                 request_vars, score_vars, crawl_vars, ap_in>>

\* find_contacts(organization_id, domain, name)
CallFindContacts ==
  /\ ap_pc = "new"
  /\ ap_pc' = "done"
  /\ ap_out' = [method |-> "find_contacts",
                ret |-> find_contacts(ap_in.has_ident, ap_in.people)]
  /\ UNCHANGED <<pipeline_vars, scroll_vars, result_vars, session_vars,
                 request_vars, score_vars, crawl_vars, ap_in>>

\* enrich_company_and_contacts(domain, name)
CallEnrichCompanyAndContacts ==
  /\ ap_pc = "new"
  /\ ap_pc' = "done"
  /\ ap_out' = [method |-> "enrich_company_and_contacts",
                ret |-> enrich_company_and_contacts(ap_in.has_ident,
                          [org |-> ap_in.org, people |-> ap_in.people])]
  /\ UNCHANGED <<pipeline_vars, scroll_vars, result_vars, session_vars,
                 request_vars, score_vars, crawl_vars, ap_in>>

NextApollo ==
  CallEnrichCompany \/ CallFindContacts \/ CallEnrichCompanyAndContacts

SpecApollo == InitApollo /\ [][NextApollo]_vars

\* ------------------------------------------------------------------------
\* LinkedInScraper: concurrent process_company runs, each handing
\* scrape_company / scrape_profile to a worker thread (asyncio.to_thread)
\* ------------------------------------------------------------------------
NRuns == 2
Runs == 1..NRuns
MaxScrapes == 2

\* a login() call of a thread: whether logged_in was set when it was called,
\* the steps it took and what it returned ("none" while it runs or when it
\* was not called, "true", "false", "raised")
NoLogin == [called |-> FALSE, was_logged_in |-> FALSE, steps |-> <<>>,
            result |-> "none"]

\* a worker thread: pc is "idle" (no scrape running), "entered" (in
\* scrape_company / scrape_profile, before the logged_in test), "login_call"
\* (calling login), "login_try" (in the try block of login, before the
\* cookie replay), "form" (on the login form), "scrape" (in the try block of
\* the scrape function); ret is what the scrape function gave to_thread
IdleThread(n) == [pc |-> "idle", left |-> n, login |-> NoLogin, ret |-> "none"]

InitLinkedIn ==
  /\ PipelineOff
  /\ ScrollIdle
  /\ ResultIdle
  /\ RequestsIdle
  /\ ScoreIdle
  /\ CrawlIdle
  /\ ApolloIdle
  /\ li = [driver |-> FALSE, logged_in |-> FALSE]
  /\ cookies_file \in BOOLEAN
  /\ cookie_writes = {}
  /\ threads \in {[r \in Runs |-> IdleThread(n[r])] : n \in [Runs -> 1..MaxScrapes]}

\* data_pipeline.py lines 220-222 and 246-248: a run hands a scrape to a
\* worker thread
to_thread(r) ==
  /\ threads[r].pc = "idle"
  /\ threads[r].left > 0
  /\ threads' = [threads EXCEPT ![r] = [pc |-> "entered", left |-> @.left - 1,
                                        login |-> NoLogin, ret |-> "none"]]
  /\ UNCHANGED <<li, cookies_file, cookie_writes>>
  /\ UNCHANGED <<pipeline_vars, scroll_vars, result_vars, request_vars,
                 score_vars, crawl_vars, apollo_vars>>

\* lines 321 and 446: 'if not self.logged_in and not self.login()'
ScrapeEntry(r) ==
  /\ threads[r].pc = "entered"
  /\ threads' = [threads EXCEPT ![r].pc =
                   IF li.logged_in THEN "scrape" ELSE "login_call"]
  /\ UNCHANGED <<li, cookies_file, cookie_writes>>
  /\ UNCHANGED <<pipeline_vars, scroll_vars, result_vars, request_vars,
                 score_vars, crawl_vars, apollo_vars>>

\* login, lines 225-230: return True when logged in; start the browser when
\* there is none, which happens before the try block, so that an exception
\* of webdriver.Chrome (driver not assigned) or of the calls configuring it
\* (driver assigned) leaves login and the scrape function
LoginCall(r) ==
  /\ threads[r].pc = "login_call"
  /\ IF li.logged_in
       THEN /\ threads' = [threads EXCEPT
                 ![r].login = [called |-> TRUE, was_logged_in |-> TRUE,
                               steps |-> <<>>, result |-> "true"],
                 ![r].pc = "scrape"]
            /\ li' = li
       ELSE \/ /\ ~li.driver
               /\ \E d \in BOOLEAN : li' = [li EXCEPT !.driver = d]
               /\ threads' = [threads EXCEPT
                    ![r].login = [called |-> TRUE, was_logged_in |-> FALSE,
                                  steps |-> <<>>, result |-> "raised"],
                    ![r].pc = "idle", ![r].ret = "raised"]
            \/ /\ li' = [li EXCEPT !.driver = TRUE]
               /\ threads' = [threads EXCEPT
                    ![r].login = [called |-> TRUE, was_logged_in |-> FALSE,
                                  steps |-> <<>>, result |-> "none"],
                    ![r].pc = "login_try"]
  /\ UNCHANGED <<cookies_file, cookie_writes>>
  /\ UNCHANGED <<pipeline_vars, scroll_vars, result_vars, request_vars,
                 score_vars, crawl_vars, apollo_vars>>

\* login returns False: the scrape function returns None
LoginFailed(t, step) ==
  [t EXCEPT !.login.steps = Append(@, step), !.login.result = "false",
            !.pc = "idle", !.ret = "null"]

\* login, lines 232-243: with a cookie file that loads, go to the feed; on
\* the feed the session is logged in; an exception returns False; in every
\* other case the login form is next
CookieReplay(r) ==
  /\ threads[r].pc = "login_try"
  /\ \/ /\ cookies_file
        /\ \/ /\ li' = [li EXCEPT !.logged_in = TRUE]
              /\ threads' = [threads EXCEPT
                   ![r].login.steps = Append(@, "replay_landed"),
                   ![r].login.result = "true",
                   ![r].pc = "scrape"]
           \/ /\ li' = li
              /\ threads' = [threads EXCEPT
                   ![r].login.steps = Append(@, "replay_missed"),
                   ![r].pc = "form"]
           \/ /\ li' = li
              /\ threads' = [threads EXCEPT
                   ![r] = LoginFailed(@, "replay_raised")]
     \/ /\ li' = li
        /\ threads' = [threads EXCEPT
             ![r].login.steps = Append(@, "no_cookies"),
             ![r].pc = "form"]
  /\ UNCHANGED <<cookies_file, cookie_writes>>
  /\ UNCHANGED <<pipeline_vars, scroll_vars, result_vars, request_vars,
                 score_vars, crawl_vars, apollo_vars>>

\* login, lines 245-307: submit the credentials; on the feed (at once or
\* after the verification wait) logged_in is set and the cookies are saved,
\* and an exception of the save returns False; elsewhere, or on any
\* exception, login returns False
FormLogin(r) ==
  /\ threads[r].pc = "form"
  /\ \/ /\ li' = [li EXCEPT !.logged_in = TRUE]
        /\ cookies_file' = TRUE
        /\ cookie_writes' = cookie_writes \cup {[landed |-> TRUE]}
        /\ threads' = [threads EXCEPT
             ![r].login.steps = Append(Append(@, "form_landed"), "save"),
             ![r].login.result = "true",
             ![r].pc = "scrape"]
     \/ /\ li' = [li EXCEPT !.logged_in = TRUE]
        /\ threads' = [threads EXCEPT
             ![r] = LoginFailed([@ EXCEPT !.login.steps =
                                   Append(@, "form_landed")], "save_raised")]
        /\ UNCHANGED <<cookies_file, cookie_writes>>
     \/ /\ li' = li
        /\ \E step \in {"form_missed", "form_raised"} :
             threads' = [threads EXCEPT ![r] = LoginFailed(@, step)]
        /\ UNCHANGED <<cookies_file, cookie_writes>>
  /\ UNCHANGED <<pipeline_vars, scroll_vars, result_vars, request_vars,
                 score_vars, crawl_vars, apollo_vars>>

\* scrape_company lines 325-432, scrape_profile lines 450-642: the try
\* block returns the data, or None on an exception
ScrapeReturn(r) ==
  /\ threads[r].pc = "scrape"
  /\ \E v \in {"data", "null"} :
       threads' = [threads EXCEPT ![r].pc = "idle", ![r].ret = v]
  /\ UNCHANGED <<li, cookies_file, cookie_writes>>
  /\ UNCHANGED <<pipeline_vars, scroll_vars, result_vars, request_vars,
                 score_vars, crawl_vars, apollo_vars>>

NextLinkedIn ==
  \E r \in Runs :
    \/ to_thread(r)
    \/ ScrapeEntry(r)
    \/ LoginCall(r)
    \/ CookieReplay(r)
    \/ FormLogin(r)
    \/ ScrapeReturn(r)

SpecLinkedIn == InitLinkedIn /\ [][NextLinkedIn]_vars

\* ------------------------------------------------------------------------
\* WebsiteCrawler.scrape_website: contact pages and social links of the
\* result (lines 151-158 and 181-198), for the pages of a crawl in the
\* order they were processed
\* ------------------------------------------------------------------------
\* pages processed by a crawl, and social links on a page
MaxProcessed == 2
MaxSocial == 2

\* the keys of social_platforms that are modelled, and hrefs matching their
\* patterns
Platforms == {"linkedin", "twitter"}
SocialHrefs ==
  {[platform |-> "linkedin", id |-> 1], [platform |-> "linkedin", id |-> 2],
   [platform |-> "twitter", id |-> 1]}
SocialLists == UNION {[1..n -> SocialHrefs] : n \in 0..MaxSocial}

\* the URLs a crawl fetches
InternalUrls == {h \in Hrefs : IsInternal(h)}

\* a processed page: its URL, whether its title, headers or form look like
\* those of a contact page, and its social hrefs in document order
Pages == [url : InternalUrls, contact_content : BOOLEAN, socials : SocialLists]

\* the pages of a crawl: no URL twice, because of visited_urls
CrawledPages ==
  {ps \in UNION {[1..n -> Pages] : n \in 0..MaxProcessed} :
     \A i, j \in 1..Len(ps) : ps[i].url = ps[j].url => i = j}

\* _is_contact_page: a keyword in the URL, or in the title, the headers or
\* the form
_is_contact_page(page) == IsContactLink(page.url) \/ page.contact_content

\* dict.update
DictUpdate(d, e) ==
  [k \in DOMAIN d \cup DOMAIN e |-> IF k \in DOMAIN e THEN e[k] ELSE d[k]]

\* the dict with one more key
DictSet(d, k, v) == [x \in DOMAIN d \cup {k} |-> IF x = k THEN v ELSE d[x]]

RECURSIVE ExtractSocial(_, _, _)
ExtractSocial(hrefs, i, found) ==
  IF i > Len(hrefs) THEN found
  ELSE ExtractSocial(hrefs, i + 1,
         IF hrefs[i].platform \in DOMAIN found THEN found
         ELSE DictSet(found, hrefs[i].platform, hrefs[i]))

\* _extract_social_links: the first link of the page per platform
_extract_social_links(hrefs) == ExtractSocial(hrefs, 1, EmptyDict)

\* the orders in which list(set(urls)) can give the URLs of a list
SetOrders(urls) ==
  LET S == {urls[i] : i \in 1..Len(urls)}
  IN  {o \in [1..Cardinality(S) -> S] : {o[i] : i \in DOMAIN o} = S}

InitResult ==
  /\ PipelineOff
  /\ ScrollIdle
  /\ SessionIdle
  /\ RequestsIdle
  /\ ScoreIdle
  /\ CrawlIdle
  /\ ApolloIdle
  /\ ag_pc = "pages"
  /\ ag_pages \in CrawledPages
  /\ ag_i = 1
  /\ contact_urls = <<>>
  /\ social_links = EmptyDict
  /\ ag_info = EmptyDict

\* lines 151-158: a contact page is appended to contact_urls, and
\* social_links is updated with the social links of the page
ProcessPage ==
  /\ ag_pc = "pages"
  /\ ag_i <= Len(ag_pages)
  /\ contact_urls' = IF _is_contact_page(ag_pages[ag_i])
                       THEN Append(contact_urls, ag_pages[ag_i].url)
                       ELSE contact_urls
  /\ social_links' =
       DictUpdate(social_links, _extract_social_links(ag_pages[ag_i].socials))
  /\ ag_i' = ag_i + 1
  /\ UNCHANGED <<pipeline_vars, scroll_vars, session_vars, request_vars,
                 score_vars, crawl_vars, apollo_vars>>
  /\ UNCHANGED <<ag_pc, ag_pages, ag_info>>

\* lines 181-198: contact_urls goes through a set, whose order is not that
\* of the list, and the result takes its first element
BuildResult ==
  /\ ag_pc = "pages"
  /\ ag_i > Len(ag_pages)
  /\ \E urls \in SetOrders(contact_urls) :
       ag_info' = [contact_form_url |->
                     IF urls # <<>> THEN <<urls[1]>> ELSE <<>>,
                   all_contact_urls |-> urls,
                   social_profiles |-> social_links]
  /\ ag_pc' = "done"
  /\ UNCHANGED <<pipeline_vars, scroll_vars, session_vars, request_vars,
                 score_vars, crawl_vars, apollo_vars>>
  /\ UNCHANGED <<ag_pages, ag_i, contact_urls, social_links>>

NextResult == ProcessPage \/ BuildResult

SpecResult == InitResult /\ [][NextResult]_vars

\* ------------------------------------------------------------------------
\* The scroll loops: LinkedInScraper._human_like_scroll and
\* DataAcquisitionService._scroll_to_load_content
\* ------------------------------------------------------------------------
\* a page grows at most MaxGrow times, or on every scroll; iterations are
\* counted up to MaxIter; heights are kept modulo MaxHeight + 1, in units of
\* one growth of the page
MaxGrow == 4
MaxIter == 8
MaxHeight == 5
AlwaysGrows == -1

\* the scroll_count arguments of the callers (lines 345, 470, 563)
ScrollCounts == {3, 5, 7}

\* the page after a scroll, and document.body.scrollHeight after a scroll
\* of a page of height h
Grows(page) == page # 0
AfterScroll(page) == IF page > 0 THEN page - 1 ELSE page
scrollHeight(page, h) == IF Grows(page) THEN (h + 1) % (MaxHeight + 1) ELSE h

InitScroll ==
  /\ PipelineOff
  /\ SessionIdle
  /\ ResultIdle
  /\ RequestsIdle
  /\ ScoreIdle
  /\ CrawlIdle
  /\ ApolloIdle
  /\ scr_pc = "loop"
  /\ \/ scr_fn = "_human_like_scroll" /\ scr_count \in ScrollCounts
     \/ scr_fn = "_scroll_to_load_content" /\ scr_count = 0
  /\ scr_page \in {AlwaysGrows} \cup 0..MaxGrow
  /\ scr_height = 0
  /\ scr_iter = 0
  /\ scr_grew = FALSE

\* linkedin_scraper.py lines 169-191: one iteration of 'for _ in
\* range(scroll_count)': scroll, pause, read the height again
HumanLikeScroll ==
  /\ scr_pc = "loop"
  /\ scr_fn = "_human_like_scroll"
  /\ scr_iter < scr_count
  /\ scr_iter' = scr_iter + 1
  /\ scr_height' = scrollHeight(scr_page, scr_height)
  /\ scr_grew' = (scr_height' # scr_height)
  /\ scr_page' = AfterScroll(scr_page)
  /\ UNCHANGED <<pipeline_vars, session_vars, result_vars, request_vars,
                 score_vars, crawl_vars, apollo_vars>>
  /\ UNCHANGED <<scr_pc, scr_fn, scr_count>>

\* linkedin_scraper.py line 169: the range is used up
HumanLikeReturn ==
  /\ scr_pc = "loop"
  /\ scr_fn = "_human_like_scroll"
  /\ scr_iter >= scr_count
  /\ scr_pc' = "done"
  /\ UNCHANGED <<pipeline_vars, session_vars, result_vars, request_vars,
                 score_vars, crawl_vars, apollo_vars>>
  /\ UNCHANGED <<scr_fn, scr_count, scr_page, scr_height, scr_iter, scr_grew>>

\* data_acquisition_service.py lines 330-336: one iteration of 'while
\* True': scroll to the bottom, sleep, break when the height is unchanged
ScrollToLoad ==
  /\ scr_pc = "loop"
  /\ scr_fn = "_scroll_to_load_content"
  /\ scr_iter' = IF scr_iter < MaxIter THEN scr_iter + 1 ELSE scr_iter
  /\ scr_height' = scrollHeight(scr_page, scr_height)
  /\ scr_grew' = (scr_height' # scr_height)
  /\ scr_page' = AfterScroll(scr_page)
  /\ scr_pc' = IF scr_height' = scr_height THEN "done" ELSE "loop"
  /\ UNCHANGED <<pipeline_vars, session_vars, result_vars, request_vars,
                 score_vars, crawl_vars, apollo_vars>>
  /\ UNCHANGED <<scr_fn, scr_count>>

NextScroll == HumanLikeScroll \/ HumanLikeReturn \/ ScrollToLoad

SpecScroll == InitScroll /\ [][NextScroll]_vars

\* a running loop keeps taking steps
SpecScrollFair == SpecScroll /\ WF_vars(NextScroll)

\* ------------------------------------------------------------------------
\* Properties
\* ------------------------------------------------------------------------
StageRank(stage) ==
  CASE stage = "crawl" -> 1
    [] stage = "enrich" -> 2
    [] stage = "li_company" -> 3
    [] stage = "li_profiles" -> 4
    [] stage = "normalize" -> 5

InLog(ev, stage) == \E j \in 1..Len(log) : log[j] = Event(ev, stage)
Ran(stage) == \E j \in 1..Len(log) : log[j].stage = stage

C2_StageOrder ==
  \A j \in 1..Len(log) :
    /\ \A i \in 1..(j - 1) : StageRank(log[i].stage) <= StageRank(log[j].stage)
    /\ log[j].ev = "start" =>
         Cardinality({i \in 1..(j - 1) : log[i].ev = "start"})
           = Cardinality({i \in 1..(j - 1) : log[i].ev # "start"})

C2_Witness ==
  /\ pc = "llm_wait"
  /\ Ran("crawl")
  /\ Ran("enrich")
  /\ InLog("end", "li_company")
  /\ log[Len(log)] = Event("start", "normalize")

\* the failure marker of a stage in the raw-data bag
BagMarker(bag, stage) ==
  CASE stage = "crawl" -> bag.website_data
    [] stage = "enrich" -> bag.apollo_data.kind
    [] stage = "li_company" -> bag.linkedin_data
    [] stage = "li_profiles" ->
         IF \E k \in 1..Len(bag.individual_profiles.items) :
              bag.individual_profiles.items[k] = "error"
           THEN "error" ELSE "none"

EmptyContactsResponse(r) ==
  /\ r.api_ok /\ r.json_ok /\ r.fence # "other" /\ r.toptype = "dict"
  /\ CK \subseteq r.keys
  /\ r.company_isdict
  /\ \A f \in {"name", "website_url", "industry"} : r.company[f] # "absent"
  /\ r.contacts_islist
  /\ r.contacts = <<>>

\* C4: a prospect whose stored status is 'Data Ready' has a normalized
\* record with at least one contact and, once process_company has written
\* the contacts back, at least one stored contact; normalization runs also
\* when enrichment gave no contacts, and a response with an empty contacts
\* list fails validation and leaves the prospect in 'Error'.
C4_NoReadyWithoutContacts ==
  /\ \A id \in DOMAIN companies :
       companies[id].campaign_status = "Data Ready" =>
         IF id = prospect_id /\ pc = "writeback"
           THEN Len(norm.data.contacts) >= 1
           ELSE get_contacts_by_company(contacts_tbl, id) # <<>>
  /\ (pc = "returned" /\ cfg.gemini) => norm.ran
  /\ (pc = "returned" /\ norm.ran /\ EmptyContactsResponse(response)) =>
       /\ ~ret.success
       /\ cfg.db => companies[prospect_id].campaign_status = "Error"

C4_Witness ==
  /\ pc = "returned"
  /\ cfg.db
  /\ cfg.apollo
  /\ BagContacts(raw_data) = <<>>
  /\ norm.ran
  /\ EmptyContactsResponse(response)
  /\ companies[prospect_id].campaign_status = "Error"

NonEmptyName(v) == v \in {"short_str", "long_str"}

\* C6: every stored prospect whose status is 'Data Ready' has a
\* data_quality_score set and a non-empty company name.
C6_ReadyInvariant ==
  \A id \in DOMAIN companies :
    companies[id].campaign_status = "Data Ready" =>
      /\ companies[id].data_quality_score >= 0
      /\ NonEmptyName(companies[id].company_name)

\* C7: for a CSV with a valid header process_companies_from_csv returns one
\* result per data row, so the number of results equals the number of rows.
C7_OneResultPerRow ==
  (batchpc = "returned" /\ header_ok) => Len(results) = nrows

WellFormedRows == SelectSeq(rows, LAMBDA row : row.wellformed)

\* C8: a failed row yields an error result for that row only, the rows after
\* it are still read and processed, and the batch call returns: when it
\* returns, every row was read, the results are those of the processed rows
\* in order, and a result is a failure exactly when that row's own
\* normalization failed.
C8_RowIsolation ==
  /\ batchpc # "raised"
  /\ (batchpc = "returned" /\ header_ok) =>
       /\ Len(rows) = nrows
       /\ Len(results) = Len(WellFormedRows)
       /\ \A j \in 1..Len(results) :
            /\ results[j].prospect_id = j
            /\ ~results[j].success => results[j].kind = "error"
            /\ cfg.db =>
                 (~results[j].success
                    <=> companies[j].campaign_status = "Error")

C8_Witness ==
  /\ batchpc = "returned"
  /\ header_ok
  /\ Len(results) = 2
  /\ ~results[1].success
  /\ results[2].success
  /\ results[2].kind = "ok"

\* C9: a process_company run cancelled at a suspension point has its browser
\* session closed and its prospect stored as 'Error'; the prospect is not
\* left in 'Processing'.
C9_CancelCleansUp ==
  pc = "cancelled" =>
    /\ ~scraper.driver
    /\ cfg.db => companies[prospect_id].campaign_status = "Error"

AfterCrawl ==
  {"enrich", "li_company", "li_company_wait", "li_profiles", "li_profile_loop",
   "li_profile_wait", "normalize", "llm_wait", "writeback", "returned"}

\* C10: with storage configured the initial record is stored before any
\* stage starts and the output of every completed stage is in storage before
\* the next stage starts: the crawl result, the enrichment result and the
\* company scrape.
C10_IncrementalWrites ==
  (cfg.db /\ pc \in AfterCrawl \cup {"crawl"}) =>
    /\ prospect_id \in DOMAIN companies
    /\ (pc \in AfterCrawl /\ raw_data.website_data = "data")
         => "website" \in companies[prospect_id].written
    /\ (pc = "li_company" /\ apollo_ret.kind = "record")
         => "apollo" \in companies[prospect_id].written
    /\ (pc \in {"li_profiles", "li_profile_loop", "li_profile_wait", "normalize",
                "llm_wait"} /\ raw_data.linkedin_data = "data")
         => "linkedin" \in companies[prospect_id].written

\* ------------------------------------------------------------------------
\* _make_request: rate limit and retries
\* ------------------------------------------------------------------------
\* C11: the HTTP requests sent within one rate window, the retries of a call
\* counted as requests and all callers taken together, never exceed
\* APOLLO_RATE_LIMIT.
C11_RateLimit == window_sent <= APOLLO_RATE_LIMIT

\* C12: when more calls than the limit have started, the time from the start
\* of the first call to the start of the last is at least (N - 1) / R, with
\* R = APOLLO_RATE_LIMIT / APOLLO_RATE_PERIOD calls a second.
C12_BurstElapsed ==
  started.n > APOLLO_RATE_LIMIT =>
    (started.last - started.first) * APOLLO_RATE_LIMIT
      >= (started.n - 1) * APOLLO_RATE_PERIOD

\* C13: a call is tried at most max_tries times, and only a transient
\* failure is tried again: after a permanent failure (a 4xx other than 429)
\* no further try is made.
C13_RetryPolicy ==
  \A c \in Callers :
    /\ callers[c].tries <= max_tries
    /\ callers[c].pc = "backoff" => callers[c].resp = "transient"

\* ------------------------------------------------------------------------
\* _calculate_data_quality_score
\* ------------------------------------------------------------------------
NoFilledField(data) ==
  /\ \A f \in CompanyFields : data.company[f] \in EmptyKinds
  /\ \A i \in 1..Len(data.contacts) :
       \A f \in ContactFields : data.contacts[i].f[f] \in EmptyKinds

\* every weighted company field and every weighted field of every scored
\* contact is filled
AllScoredFilled(data) ==
  /\ \A f \in CompanyFields : data.company[f] \in FilledKinds
  /\ \A i \in 1..Min(Len(data.contacts), ScoredContacts) :
       \A f \in ContactFields : data.contacts[i].f[f] \in FilledKinds

\* C14 as stated: the score of every record is an integer in 0..100, it is
\* 0 for a record with no filled field and 100 for a record in which every
\* weighted company field and every weighted field of every scored contact
\* is filled.
C14_ScoreRange ==
  sc_pc \in {"scored", "filled"} =>
    /\ sc_score \in 0..max_score
    /\ NoFilledField(sc_data) => sc_score = 0
    /\ AllScoredFilled(sc_data) => sc_score = max_score

\* C14 amended: the score of every record is an integer in 0..100, it is 0
\* for a record with no filled field and 100 for a record with at least one
\* contact in which every weighted company field and every weighted field
\* of every scored contact is filled.
C14_ScoreRangeAmended ==
  sc_pc \in {"scored", "filled"} =>
    /\ sc_score \in 0..max_score
    /\ NoFilledField(sc_data) => sc_score = 0
    /\ (AllScoredFilled(sc_data) /\ Len(sc_data.contacts) >= 1)
         => sc_score = max_score

\* a complete record of more than five contacts, the sixth of them empty,
\* has been scored 100
C14_Witness ==
  /\ sc_pc = "scored"
  /\ Len(sc_data.contacts) > ScoredContacts
  /\ sc_data.contacts[ScoredContacts + 1] = SparseContact
  /\ AllScoredFilled(sc_data)
  /\ sc_score = max_score

\* C15: filling one empty or placeholder field of the company or of a
\* contact, all else unchanged, never lowers the score.
C15_Monotone == sc_pc = "filled" => sc_score >= sc_prev

\* a field of the third contact of a record was filled and the score rose
C15_Witness ==
  /\ sc_pc = "filled"
  /\ Len(sc_data.contacts) >= 3
  /\ sc_data.contacts[3] \notin {SparseContact, GoodContact}
  /\ sc_score > sc_prev

\* C16: the data_quality_score of the record process_scraped_data returns,
\* and the score process_company stores for the prospect, is the score
\* _calculate_data_quality_score gives the record, whatever
\* data_quality_score the response of the model carried.
C16_LocalScore ==
  (norm.ran /\ norm.res.ok) =>
    /\ norm.data.data_quality_score = _calculate_data_quality_score(norm.data)
    /\ (cfg.db /\ pc \in {"writeback", "returned"}) =>
         companies[prospect_id].data_quality_score
           = _calculate_data_quality_score(norm.data)

\* a response that carried another data_quality_score than the local one
\* was normalized and stored
C16_Witness ==
  /\ pc = "returned"
  /\ cfg.db
  /\ norm.ran /\ norm.res.ok
  /\ "data_quality_score" \in response.keys
  /\ response.claimed_score # _calculate_data_quality_score(norm.data)
  /\ companies[prospect_id].campaign_status = "Data Ready"
  /\ companies[prospect_id].data_quality_score # response.claimed_score

\* ------------------------------------------------------------------------
\* scrape_website
\* ------------------------------------------------------------------------
\* C17: the page fetches of a crawl, failed ones included, never exceed
\* max_pages, and every fetched URL is on the domain of the root and at most
\* max_depth link hops from it.
C17_CrawlBounds ==
  /\ Len(fetched) <= crawler.max_pages
  /\ \A i \in 1..Len(fetched) :
       /\ IsInternal(fetched[i].url)
       /\ fetched[i].depth <= crawler.max_depth

\* keys under which a result would carry the number of pages that errored
ErrorCountKeys ==
  {"page_error_count", "error_count", "errored_page_count", "failed_page_count",
   "page_errors", "errors"}

\* the fetches that gave a page
OkFetched == SelectSeq(fetched, LAMBDA f : f.ok)

\* C18: a page that fails to fetch or to parse does not make the crawl fail:
\* scrape_website returns, its result holds what the other pages gave, and
\* the result carries the count of the pages that errored.
C18_PageErrors ==
  cr_pc = "done" =>
    /\ company_info["scraped_website_text_snippet"]
         = [i \in 1..Len(OkFetched) |-> OkFetched[i].url]
    /\ company_info["crawled_page_count"] = <<Len(OkFetched)>>
    /\ \E k \in DOMAIN company_info \cap ErrorCountKeys :
         company_info[k] = <<Len(fetched) - Len(OkFetched)>>

\* ------------------------------------------------------------------------
\* ApolloIntegration: email status and error values
\* ------------------------------------------------------------------------
\* C19: whatever the API answers, every contact that find_contacts or
\* enrich_company_and_contacts returns has the email status verified.
C19_VerifiedOnly ==
  (ap_pc = "done" /\ ap_out.method \in {"find_contacts",
                                        "enrich_company_and_contacts"}) =>
    \A i \in 1..Len(ap_out.ret.contacts) :
      ap_out.ret.contacts[i].email_status = "verified"

\* C20: when the API finds no organization, or the organization request
\* fails, enrich_company_and_contacts returns the error value of
\* enrich_company, raises nothing and has not searched the contacts; when
\* the search finds no contacts or fails, find_contacts has returned an
\* error value and nothing was raised; in each of these cases the
\* coordinator is at the stage after the enrichment with no contacts in its
\* bag.
C20_ErrorValues ==
  (apollo_ret.kind # "none") =>
    /\ (apollo_ret.org_answer \in {"no_organization", "raised"}) =>
         /\ ~apollo_ret.raised
         /\ apollo_ret.kind = "error"
         /\ apollo_ret.error =
              (IF apollo_ret.org_answer = "raised" THEN "exception"
               ELSE "No organization found")
         /\ apollo_ret.people_answer = "not asked"
         /\ pc = StageAfter("enrich")
         /\ BagContacts(raw_data) = <<>>
    /\ (apollo_ret.people_answer \in {"empty", "raised"}) =>
         /\ ~apollo_ret.raised
         /\ apollo_ret.kind = "record"
         /\ apollo_ret.contacts_data =
              (IF apollo_ret.people_answer = "raised" THEN "exception"
               ELSE "No contacts found")
         /\ apollo_ret.contacts = <<>>
         /\ pc = StageAfter("enrich")
         /\ BagContacts(raw_data) = <<>>

C20_Witness ==
  /\ pc = StageAfter("enrich")
  /\ apollo_ret.kind = "error"
  /\ apollo_ret.org_answer = "no_organization"
  /\ apollo_ret.people_answer = "not asked"
  /\ BagContacts(raw_data) = <<>>

\* ------------------------------------------------------------------------
\* LinkedInScraper in the coordinator
\* ------------------------------------------------------------------------
\* C21: scrape_company and scrape_profile never raise: no scrape stage of
\* the coordinator ends with an exception, and no scrape leaves an error
\* marker in the bag (a scrape that yields None leaves the bag as it was).
C21_ScrapeNeverRaises ==
  /\ \A i \in 1..Len(log) :
       log[i].stage \in {"li_company", "li_profiles"} => log[i].ev # "raise"
  /\ raw_data.linkedin_data # "error"
  /\ \A i \in 1..Len(raw_data.individual_profiles.items) :
       raw_data.individual_profiles.items[i] # "error"

\* C22: the shared browser session has one owner at a time: at most one
\* thread is inside a login or a scrape on it, and at most one login is in
\* progress.
C22_SingleOwner ==
  /\ Cardinality({r \in Runs :
                    threads[r].pc \in {"login_try", "form", "scrape"}}) <= 1
  /\ Cardinality({r \in Runs : threads[r].pc \in {"login_try", "form"}}) <= 1

\* C27: a login() call returns True at once when the session is logged in;
\* otherwise the cookie replay comes first and the form is only used when
\* the replay did not land on the feed; the cookie file is only written
\* after a login that reached the feed; and login() returns a boolean, it
\* never raises.
C27_LoginContract ==
  /\ \A r \in Runs :
       LET lg == threads[r].login IN
       /\ lg.result \in {"none", "true", "false"}
       /\ lg.was_logged_in => (lg.steps = <<>> /\ lg.result = "true")
       /\ \A i \in 1..Len(lg.steps) :
            /\ lg.steps[i] \in {"form_landed", "form_missed", "form_raised"}
                 => (i = 2 /\ lg.steps[1] \in {"replay_missed", "no_cookies"})
            /\ lg.steps[i] = "save" => (i = 3 /\ lg.steps[2] = "form_landed")
  /\ \A w \in cookie_writes : w.landed

\* C23: when enrich_company_and_contacts has returned a record with k >= 1
\* contacts, the bag holds that record as apollo_data, with storage
\* configured exactly k contact records of the enrichment are stored for
\* the prospect, and once the profile-scrape stage is over it has started
\* one scrape for each contact of the bag that carries a LinkedIn URL.
C23_EnrichmentKept ==
  /\ (apollo_ret.kind = "record" /\ Len(apollo_ret.contacts) >= 1) =>
       /\ raw_data.apollo_data.kind = "record"
       /\ raw_data.apollo_data.contacts = apollo_ret.contacts
       /\ cfg.db =>
            Cardinality({i \in 1..Len(contacts_tbl) :
                           /\ contacts_tbl[i].company_id = prospect_id
                           /\ contacts_tbl[i].src = "apollo"})
              = Len(apollo_ret.contacts)
  /\ (pc \in {"normalize", "llm_wait"} /\ cfg.linkedin) =>
       Cardinality({i \in 1..Len(log) :
                      log[i] = Event("start", "li_profiles")})
         = Cardinality({i \in 1..Len(BagContacts(raw_data)) :
                          BagContacts(raw_data)[i].linkedin_url})

\* ------------------------------------------------------------------------
\* WebsiteCrawler: frontier order, result, termination
\* ------------------------------------------------------------------------
\* the entries of the frontier that are still to be fetched
PendingContact(i) ==
  /\ IsContactLink(pages_to_visit[i].url)
  /\ pages_to_visit[i].url \notin visited_urls

PendingOther(i) ==
  /\ ~IsContactLink(pages_to_visit[i].url)
  /\ pages_to_visit[i].url \notin visited_urls

\* C24: in the frontier every pending link whose URL contains 'contact'
\* stands before every pending link whose URL does not, and a step that
\* fetches a page without 'contact' in its URL is taken only when no
\* contact link is pending, so that pending contact links are fetched
\* first.
C24_ContactFirst ==
  /\ [](\A i, j \in 1..Len(pages_to_visit) :
          (PendingOther(i) /\ PendingContact(j)) => i > j)
  /\ [][(Len(fetched') > Len(fetched)
           /\ ~IsContactLink(fetched'[Len(fetched')].url))
          => \A i \in 1..Len(pages_to_visit) : ~PendingContact(i)]_vars

\* a contact link found on a deeper page stands before a pending link that
\* was found earlier
C24_Witness ==
  \E i, j \in 1..Len(pages_to_visit) :
    /\ i < j
    /\ PendingContact(i)
    /\ PendingOther(j)
    /\ pages_to_visit[i].depth > pages_to_visit[j].depth

\* C29: whatever the pages link to and whichever fetches fail, the crawl
\* returns, and no URL is fetched twice during it.
C29_Terminates ==
  /\ <>(cr_pc = "done")
  /\ [](\A i, j \in 1..Len(fetched) :
          fetched[i].url = fetched[j].url => i = j)

\* a crawl that has returned after a failed fetch and after more fetches
\* than max_pages
C29_Witness ==
  /\ cr_pc = "done"
  /\ \E i \in 1..Len(fetched) : ~fetched[i].ok
  /\ Len(fetched) > crawler.max_pages

\* the contact pages of a crawl, in the order they were fetched
ContactPages(pages) == SelectSeq(pages, _is_contact_page)

\* C25: contact_form_url is the earliest-fetched page classified as a
\* contact page, and is null exactly when no fetched page was classified as
\* one.
C25_FirstContactPage ==
  ag_pc = "done" =>
    ag_info.contact_form_url =
      (IF ContactPages(ag_pages) = <<>> THEN <<>>
       ELSE <<ContactPages(ag_pages)[1].url>>)

\* the social hrefs of a crawl, in the order they were met
RECURSIVE AllSocials(_, _)
AllSocials(pages, i) ==
  IF i > Len(pages) THEN <<>> ELSE pages[i].socials \o AllSocials(pages, i + 1)

\* C26: social_profiles holds, for each platform, the first match of the
\* whole crawl: a later match on the same page or on a later page does not
\* replace it.
C26_FirstSocialWins ==
  ag_pc = "done" =>
    ag_info.social_profiles = _extract_social_links(AllSocials(ag_pages, 1))

\* ------------------------------------------------------------------------
\* Scroll loops
\* ------------------------------------------------------------------------
\* C28: every scroll loop ends, on a page that grows on every scroll too;
\* it goes on only while the page grew at the last scroll, and when it has
\* ended the page had stopped growing or the iteration cap was reached.
C28_ScrollTerminates ==
  /\ <>(scr_pc = "done")
  /\ [](scr_pc = "loop" /\ scr_iter >= 1 => scr_grew)
  /\ [](scr_pc = "done" => (~scr_grew \/ (scr_count > 0 /\ scr_iter = scr_count)))

\* ------------------------------------------------------------------------
\* Write-back of the canonical contacts
\* ------------------------------------------------------------------------
\* the stored contacts of a prospect
StoredContacts(id) == {i \in 1..Len(contacts_tbl) : contacts_tbl[i].company_id = id}

\* C30: after the write-back of a run the stored contacts of the prospect
\* are unique: there is one stored contact for each canonical contact, and
\* no two stored contacts of the prospect have the same primary email.
C30_UniqueContacts ==
  (pc = "returned" /\ cfg.db /\ ret.kind = "ok") =>
    /\ \A i, j \in StoredContacts(prospect_id) :
         contacts_tbl[i].email_primary = contacts_tbl[j].email_primary => i = j
    /\ \A k \in 1..Len(norm.data.contacts) :
         Cardinality({i \in StoredContacts(prospect_id) :
                        /\ contacts_tbl[i].normalized
                        /\ Match(norm.data.contacts[k], contacts_tbl[i])}) = 1

====
